---- MODULE Spec2Model ----
(***************************************************************************)
(* Snapshot Manager of ddarchive_helper (snapshots.py) with the manifest   *)
(* helpers of utils.py, the validation probe of decoder.py and the         *)
(* process-presence check of system.py.  The save directory, the snapshot  *)
(* store, the re-entrant storage lock and each calling thread's position   *)
(* inside capture_snapshot / restore_snapshot / clear_bucket /             *)
(* promote_latest_poll_to_pre_raid are the state; the game process writing *)
(* the save directory is the environment.                                  *)
(***************************************************************************)
EXTENDS Integers, Sequences, FiniteSets, TLC

(* ------------------------------ bounds --------------------------------- *)
\* snapshots published (by captures and promotions) in one behaviour
MaxPublished == 2
\* largest configured retention_per_bucket drawn in Init
MaxRetention == 2
\* largest configured integrity_retry drawn in Init
MaxIntegrityRetry == 2
\* child directories a bucket may hold when retention is applied to it
MaxStored == 3
\* events the queue holds before a producer waits for the consumer
MaxQueue == 2

(* ----------------------------- constants.py ---------------------------- *)
BUCKET_CLOSED_MANUAL == "closed_manual"
BUCKET_RUNTIME_F5 == "runtime_f5"
BUCKET_PRE_RAID_AUTO == "pre_raid_auto"
BUCKET_RUNTIME_POLL_TEMP == "_runtime_poll_temp"
BUCKETS == {BUCKET_CLOSED_MANUAL, BUCKET_RUNTIME_F5, BUCKET_PRE_RAID_AUTO,
            BUCKET_RUNTIME_POLL_TEMP}
GUI_BUCKETS == {BUCKET_CLOSED_MANUAL, BUCKET_RUNTIME_F5, BUCKET_PRE_RAID_AUTO}

\* the monitor loop thread and a user-initiated worker thread
Threads == {"loop", "worker"}
\* the threads that run _run_loop: the thread of the last start() and the
\* thread of a start() before it
LoopThreads == {"loop", "loop2"}
AllThreads == Threads \cup LoopThreads

(* --------------------------- directory trees --------------------------- *)
\* File contents are named by their sha256; the save file decodes to
\* inraid = false ("F"), inraid = true ("T"), or to no boolean inraid ("X").
PERSIST == "persist.game.json"
ROSTER == "persist.roster.json"
TOWN == "persist.town.json"
Paths == {PERSIST, ROSTER, TOWN}

NoFile == [sha256 |-> "", mtime_ns |-> 0]
FileSize(sha) == CASE sha = "F" -> 1
                   [] sha = "T" -> 1
                   [] sha = "X" -> 2
                   [] sha = "R" -> 3
                   [] OTHER -> 0

\* a directory: whether it exists, and its regular files
NoFiles == [p \in Paths |-> NoFile]
MissingDir == [exists |-> FALSE, files |-> NoFiles]
Dir(files) == [exists |-> TRUE, files |-> files]

\* what the game may leave in the profile directory after one write
PersistVals == {[sha256 |-> "F", mtime_ns |-> 1],
                [sha256 |-> "T", mtime_ns |-> 1],
                [sha256 |-> "X", mtime_ns |-> 1]}
RosterVals == {NoFile}
SourceTrees == {Dir([p \in Paths |-> IF p = PERSIST THEN a ELSE b]) :
                  a \in PersistVals, b \in RosterVals}
InitialLive == Dir([p \in Paths |-> IF p = PERSIST
                                      THEN [sha256 |-> "F", mtime_ns |-> 1]
                                      ELSE NoFile])

(* ------------------------------- utils.py ------------------------------ *)
\* build_manifest: relative path -> entry, directories excluded; the entry
\* has no sha256 key when include_hash is false.  Callers test d.exists.
build_manifest(d, include_hash) ==
  [p \in {q \in Paths : d.files[q] # NoFile} |->
     IF include_hash
       THEN [size |-> FileSize(d.files[p].sha256),
             mtime_ns |-> d.files[p].mtime_ns,
             sha256 |-> d.files[p].sha256]
       ELSE [size |-> FileSize(d.files[p].sha256),
             mtime_ns |-> d.files[p].mtime_ns]]

\* paths of a manifest in sorted order (PERSIST sorts before ROSTER)
SortedKeys(m) ==
  (IF PERSIST \in DOMAIN m THEN <<PERSIST>> ELSE <<>>) \o
  (IF ROSTER \in DOMAIN m THEN <<ROSTER>> ELSE <<>>) \o
  (IF TOWN \in DOMAIN m THEN <<TOWN>> ELSE <<>>)

\* manifest_digest: the hash of the lines rel|size|mtime_ns|sha256 in
\* sorted path order, kept as the hashed text itself
manifest_digest(m) ==
  <<"sha256">> \o
  [i \in 1..Len(SortedKeys(m)) |->
     LET rel == SortedKeys(m)[i] IN
     <<rel, m[rel].size, m[rel].mtime_ns,
       IF "sha256" \in DOMAIN m[rel] THEN m[rel].sha256 ELSE "">>]

\* manifest_equal_for_copy: same path set, same size and sha256 per path
manifest_equal_for_copy(source, copied) ==
  /\ DOMAIN source = DOMAIN copied
  /\ \A rel \in DOMAIN source :
       /\ source[rel].size = copied[rel].size
       /\ source[rel].sha256 = copied[rel].sha256

SumSizesMutant(m, keys) == Cardinality(keys)
RECURSIVE SumSizes(_, _)
SumSizes(m, keys) ==
  IF keys = {} THEN 0
  ELSE LET k == CHOOSE x \in keys : TRUE
       IN m[k].size + SumSizes(m, keys \ {k})

(* ------------------------------ decoder.py ----------------------------- *)
\* read_inraid on a directory: what decoding persist.game.json yields: the
\* boolean base_root.inraid, None when the decoded file has none, "raise"
\* for DDHelperError (missing file, decode failed).
DecodeInraid(d) ==
  IF ~d.exists \/ d.files[PERSIST] = NoFile THEN "raise"
  ELSE CASE d.files[PERSIST].sha256 = "F" -> "False"
         [] d.files[PERSIST].sha256 = "T" -> "True"
         [] OTHER -> "None"
\* the decoder is an external java process: a call may also fail by itself
read_inraid(d) == {DecodeInraid(d), "raise"}
IsBool(v) == v \in {"True", "False"}


(* -------------------------------- state -------------------------------- *)
VARIABLES
  live,        \* config.profile_dir: the live profile directory
  newDir,      \* its sibling '<name>.__new'
  oldDir,      \* its sibling '<name>.__old'
  store,       \* bucket -> the published child directories of the bucket
  staging,     \* bucket -> its '.staging_<id>' child directories
  gameRunning, \* whether Darkest.exe is running
  lockOwner,   \* SnapshotManager.lock (an RLock): owning thread or "none"
  lockCount,   \* its recursion level
  pc,          \* thread -> position in the operation it executes
  loc,         \* thread -> arguments, locals and result of that operation
  clock,       \* the wall clock read by snapshot_id() and iso_utc()
  ret,         \* the call that returned in the last step, if one did
  cfg,         \* AppConfig: retention_per_bucket, integrity_retry, quiet_window_ms
  \* MonitorEngine (monitor.py 100-114)
  events,        \* self.events: the queue's content, oldest first
  _stop_evt,     \* self._stop_evt is set
  _running,      \* self._running
  _thread,       \* self._thread: the loop thread created last, or "none"
  _f5_requested, \* self._f5_requested is set
  _last_inraid,  \* self._last_inraid
  tick           \* loop thread -> the locals game_running, inraid of its tick

\* the fields of the engine and the locals of its loop
monVars == <<events, _stop_evt, _running, _thread, _f5_requested, _last_inraid, tick>>

vars == <<live, newDir, oldDir, store, staging, gameRunning, lockOwner,
          lockCount, pc, loc, clock, ret, cfg, monVars>>

(* ---------------------------- SnapshotInfo ----------------------------- *)
NoDigest == <<>>            \* source_hash "" of a synthetic record
NoneDigest == <<"None">>    \* _latest_source_hash of an empty bucket
NoId == <<0, "">>
NoInfo == [snapshot_id |-> NoId, bucket |-> "", reason |-> "", created_at |-> 0,
           inraid_at_capture |-> "None", pre_raid_anchor |-> FALSE,
           integrity_ok |-> FALSE, source_hash |-> NoDigest,
           snapshot_size_bytes |-> 0, path |-> <<"", NoId>>, profile |-> 0]

\* a capture result: a record (kind "info"), None (kind "None"), or a raised
\* DDHelperError (kind "error", with the last attempt's cause for CaptureFailed)
NoResult == [kind |-> "none", info |-> NoInfo, error |-> "", cause |-> ""]
InfoResult(i) == [kind |-> "info", info |-> i, error |-> "", cause |-> ""]
NoneResult == [kind |-> "None", info |-> NoInfo, error |-> "", cause |-> ""]
ErrorResult(e, c) == [kind |-> "error", info |-> NoInfo, error |-> e, cause |-> c]

EmptyManifest == [p \in {} |-> NoFile]

\* no event
NoEvent == [type |-> "none", by |-> "none"]

\* a thread that executes nothing
IdleLoc == [op |-> "none", caller |-> "top", bucket |-> "", reason |-> "",
            dedupe |-> FALSE, inraid_at_capture |-> "None", attempt |-> 0,
            snap_id |-> NoId, first |-> EmptyManifest, before |-> EmptyManifest,
            last_error |-> "unknown", target |-> NoInfo, backup |-> NoInfo,
            result |-> NoResult,
            \* history of the current capture attempt and restore call
            h_quiet |-> "none", h_after |-> EmptyManifest, h_value |-> "none",
            h_pre |-> MissingDir, h_fault |-> "none", h_rollback |-> "none",
            h_clean |-> TRUE, h_running |-> FALSE, h_prev |-> FALSE,
            \* the outcome of the presence query of the step that entered
            \* restore_snapshot; kept in ret only
            h_query |-> "none",
            \* where the caller continues when the call returns: "idle" for
            \* a call made from outside the engine
            cont |-> "idle",
            \* the profile of the bucket directory capture_snapshot writes to
            bucket_profile |-> 0,
            \* the event a consumer took from the queue in the last step;
            \* kept in ret only
            event |-> NoEvent]

\* no call returned or was entered with a presence query in the last step
NoRet == [thread |-> "none", l |-> IdleLoc]

(* ------------------------------ the store ------------------------------ *)
\* _read_meta: the record of meta.json, or None (hasMeta false)
\* under is the profile whose bucket directory (_bucket_dir) holds it
SnapDir(under, name, files, info, mtime) ==
  [name |-> name, files |-> files, hasMeta |-> TRUE, meta |-> info, mtime |-> mtime,
   under |-> under]
Names(b) == {d.name : d \in store[b]}
PathOf(b, name) == <<b, name>>

\* the record list_snapshots builds for a child directory without meta.json
Synthetic(b, d) ==
  [snapshot_id |-> d.name, bucket |-> b, reason |-> "unknown",
   created_at |-> d.mtime, inraid_at_capture |-> "None", pre_raid_anchor |-> FALSE,
   integrity_ok |-> FALSE, source_hash |-> NoDigest,
   snapshot_size_bytes |-> SumSizes(build_manifest(Dir(d.files), FALSE),
                                    DOMAIN build_manifest(Dir(d.files), FALSE)),
   path |-> PathOf(b, d.name), profile |-> cfg.profile]

\* the records collected by list_snapshots before sorting, from the children
\* of _bucket_dir(b): the directories under the profile the configuration
\* names when the list is made
CollectInfos(st, b, include_invalid) ==
  LET bucket_dir == {x \in st[b] : x.under = cfg.profile}
  IN {d.meta : d \in {x \in bucket_dir : x.hasMeta}} \cup
     (IF include_invalid
        THEN {Synthetic(b, d) : d \in {x \in bucket_dir : ~x.hasMeta}}
        ELSE {})

\* result.sort(key=created_at, reverse=True)
RECURSIVE SortNewestFirst(_)
SortNewestFirst(S) ==
  IF S = {} THEN <<>>
  ELSE LET top == CHOOSE x \in S : \A y \in S : y.created_at <= x.created_at
       IN <<top>> \o SortNewestFirst(S \ {top})

\* list_snapshots(bucket, include_invalid) on store contents st
ListInMutant(st, b, include_invalid) == SortNewestFirst(CollectInfos(st, b, TRUE))
ListIn(st, b, include_invalid) ==
  LET sorted == SortNewestFirst(CollectInfos(st, b, include_invalid))
  IN IF include_invalid THEN sorted
     ELSE SelectSeq(sorted, LAMBDA x : x.integrity_ok)
list_snapshots(b, include_invalid) == ListIn(store, b, include_invalid)

\* _latest_source_hash
latest_source_hash(b) ==
  LET snapshots == list_snapshots(b, TRUE)
  IN IF snapshots = <<>> THEN NoneDigest ELSE snapshots[1].source_hash

\* _bucket_retention
bucket_retentionMutant(b) == cfg.retention_per_bucket
bucket_retention(b) ==
  IF b = BUCKET_RUNTIME_POLL_TEMP THEN 1 ELSE cfg.retention_per_bucket

\* _cleanup_dir on the paths of a set of listed records (directories of the
\* active profile): the store without them
RemovePaths(st, paths) ==
  [b \in BUCKETS |->
     {d \in st[b] : d.under # cfg.profile \/ PathOf(b, d.name) \notin paths}]

\* _apply_retention(bucket) on store contents st: drop snapshots[max_keep:]
apply_retention(st, b) ==
  LET snapshots == ListIn(st, b, TRUE)
      max_keep == bucket_retention(b)
      stale == {snapshots[i].path : i \in (max_keep + 1)..Len(snapshots)}
  IN RemovePaths(st, stale)


(* ------------------------------- Init ---------------------------------- *)
QuietWindowDefault == 800
Configs == [retention_per_bucket : {1, MaxRetention},
            integrity_retry : {MaxIntegrityRetry},
            quiet_window_ms : {0, QuietWindowDefault},
            profile : {0}]

\* MonitorEngine.__init__ (monitor.py 100-114); no loop thread is in a tick
NoTick == [game_running |-> FALSE, inraid |-> "None"]
MonInit ==
  /\ events = <<>>
  /\ _stop_evt = FALSE
  /\ _running = FALSE
  /\ _thread = "none"
  /\ _f5_requested = FALSE
  /\ _last_inraid = "None"
  /\ tick = [t \in LoopThreads |-> NoTick]

Init ==
  /\ live = InitialLive
  /\ newDir = MissingDir
  /\ oldDir = MissingDir
  /\ store = [b \in BUCKETS |-> {}]
  /\ staging = [b \in BUCKETS |-> {}]
  /\ gameRunning = FALSE
  /\ lockOwner = "none"
  /\ lockCount = 0
  /\ pc = [t \in AllThreads |-> "idle"]
  /\ loc = [t \in AllThreads |-> IdleLoc]
  /\ clock = 1
  /\ ret = NoRet
  /\ cfg \in Configs
  /\ MonInit

(* ---------------------------- environment ------------------------------ *)
GameStart ==
  /\ ~gameRunning
  /\ gameRunning' = TRUE
  /\ ret' = NoRet
  /\ UNCHANGED <<live, newDir, oldDir, store, staging, lockOwner, lockCount,
                 pc, loc, clock, cfg, monVars>>

GameStop ==
  /\ gameRunning
  /\ gameRunning' = FALSE
  /\ ret' = NoRet
  /\ UNCHANGED <<live, newDir, oldDir, store, staging, lockOwner, lockCount,
                 pc, loc, clock, cfg, monVars>>

\* the calls whose history notes a write of the game under them (h_clean):
\* a restore, and a deduplicating capture that follows a capture of the
\* same source
TracksWrites(l) == l.op = "restore" \/ l.h_prev

\* the running game rewrites its save directory
SourceWrite ==
  /\ gameRunning
  /\ live.exists
  /\ \E tr \in SourceTrees \ {live} : live' = tr
  /\ loc' = [t \in AllThreads |->
               IF TracksWrites(loc[t]) /\ pc[t] # "idle"
                 THEN [loc[t] EXCEPT !.h_clean = FALSE] ELSE loc[t]]
  /\ ret' = NoRet
  /\ UNCHANGED <<newDir, oldDir, store, staging, gameRunning, lockOwner,
                 lockCount, pc, clock, cfg, monVars>>

(* ------------------------- system.py, the lock ------------------------- *)
\* subprocess.run(["tasklist", ...]) returns its output or raises
PresenceQuery == {"answered", "raised"}
\* is_darkest_running: the tasklist answer, or False when the query raised
is_darkest_running(q) == IF q = "raised" THEN FALSE ELSE gameRunning

\* threading.RLock: free, or already held by the caller
CanAcquireMutant(t) == TRUE
CanAcquire(t) == lockOwner \in {"none", t}
Acquire(t) ==
  /\ CanAcquire(t)
  /\ lockOwner' = t
  /\ lockCount' = lockCount + 1
AcquireTwice(t) ==
  /\ CanAcquire(t)
  /\ lockOwner' = t
  /\ lockCount' = lockCount + 2
Release(n) ==
  /\ lockCount' = lockCount - n
  /\ lockOwner' = IF lockCount - n = 0 THEN "none" ELSE lockOwner

\* thread t moves to p with locals l; at "idle" its call has returned
SetThread(t, p, l) ==
  /\ pc' = [pc EXCEPT ![t] = IF p = "idle" THEN l.cont ELSE p]
  /\ loc' = [loc EXCEPT ![t] = IF p # "idle" THEN l
                               ELSE IF l.cont = "idle" THEN IdleLoc
                               ELSE [IdleLoc EXCEPT !.result = l.result]]
  /\ ret' = IF p = "idle" THEN [thread |-> t, l |-> l] ELSE NoRet

\* the locals of a capture attempt, dropped when the attempt ends
ClearAttempt(l) ==
  [l EXCEPT !.first = EmptyManifest, !.before = EmptyManifest,
            !.h_quiet = "none", !.h_after = EmptyManifest, !.h_value = "none"]
\* the locals of a capture call, dropped when it returns (the history of its
\* last attempt is kept)
ClearCapture(l) ==
  [l EXCEPT !.first = EmptyManifest, !.before = EmptyManifest, !.attempt = 0,
            !.snap_id = NoId, !.last_error = "unknown"]

(* --------------------------- capture_snapshot -------------------------- *)
\* max(1, integrity_retry)
Retries == IF cfg.integrity_retry > 1 THEN cfg.integrity_retry ELSE 1

\* lines 327-334: restore goes on only with a backup record; an exception
\* of the capture propagates, None raises
RestoreContinuesMutant(res) == TRUE
RestoreContinues(res) == res.kind = "info"

\* capture_snapshot returns res (leaving `with self.lock`) to its caller: a
\* top-level caller, or restore_snapshot (lines 327-334), where an exception
\* also leaves restore's own `with self.lock`
ReturnFromCapture(t, l, res) ==
  IF l.caller = "top"
    THEN SetThread(t, "idle", [l EXCEPT !.result = res]) /\ Release(1)
  ELSE IF RestoreContinues(res)
    THEN SetThread(t, "r_swap", [ClearCapture(l) EXCEPT !.backup = res.info])
         /\ Release(1)
  ELSE IF res.kind = "None"
    THEN SetThread(t, "idle",
                   [ClearCapture(l) EXCEPT !.result = ErrorResult("BackupFailed", "")])
         /\ Release(2)
  ELSE SetThread(t, "idle", [ClearCapture(l) EXCEPT !.result = res]) /\ Release(2)

\* _cleanup_dir(staging_dir)
CleanupStagingMutant(S, id) == S
CleanupStaging(S, id) == {d \in S : d.name # id}

\* an attempt's failure raised to the caller as it is
FailAttemptMutant(t, l, err, stg) ==
  /\ staging' = [stg EXCEPT ![l.bucket] = CleanupStaging(@, l.snap_id)]
  /\ ReturnFromCapture(t, l, ErrorResult(err, ""))

\* the except clause of an attempt (lines 231-237), then the next attempt or
\* the raise after the loop (line 238)
FailAttempt(t, l, err, stg) ==
  /\ staging' = [stg EXCEPT ![l.bucket] = CleanupStaging(@, l.snap_id)]
  /\ IF l.attempt >= Retries
       THEN ReturnFromCapture(t, l, ErrorResult("CaptureFailed", err))
       ELSE /\ SetThread(t, "c_attempt", [ClearAttempt(l) EXCEPT !.last_error = err])
            /\ UNCHANGED <<lockOwner, lockCount>>


\* the argument tuples capture_snapshot is called with by the monitor loop
\* (monitor.py 305-310) and by user-triggered operations (207-212, 227-232)
CaptureCalls(t) ==
  IF t = "loop"
    THEN {<<BUCKET_RUNTIME_POLL_TEMP, "poll", "False", TRUE>>}
    ELSE {<<BUCKET_CLOSED_MANUAL, "manual_click", "None", FALSE>>,
          <<BUCKET_RUNTIME_F5, "hotkey_f5", "None", FALSE>>}

\* history: the newest entry of the bucket is a record published from the
\* source as it is now
FollowsCapture(b) ==
  /\ live.exists
  /\ list_snapshots(b, TRUE) # <<>>
  /\ LET newest == list_snapshots(b, TRUE)[1]
     IN /\ newest.integrity_ok
        /\ \E d \in store[b] : d.name = newest.snapshot_id /\ d.files = live.files

\* a thread calls capture_snapshot; lines 173-181: take the lock (the call
\* waits while another thread holds it), the source must exist
CaptureCall(t, a, cont) ==
  /\ CanAcquire(t)
  /\ LET l == [IdleLoc EXCEPT !.op = "capture", !.bucket = a[1], !.reason = a[2],
                              !.inraid_at_capture = a[3], !.dedupe = a[4],
                              !.h_prev = a[4] /\ FollowsCapture(a[1]),
                              !.cont = cont, !.bucket_profile = cfg.profile]
     IN IF live.exists
          THEN /\ Acquire(t)
               /\ SetThread(t, "c_attempt", l)
          ELSE /\ SetThread(t, "idle",
                            [l EXCEPT !.result = ErrorResult("SourceMissing", "")])
               /\ UNCHANGED <<lockOwner, lockCount>>
  /\ UNCHANGED <<live, newDir, oldDir, store, staging, gameRunning, clock, cfg>>

\* a call of capture_snapshot from outside the engine
CaptureEnter(t) ==
  /\ pc[t] = "idle"
  /\ clock <= MaxPublished
  /\ \E a \in CaptureCalls(t) : CaptureCall(t, a, "idle")
  /\ UNCHANGED monVars

\* snapshot_id(prefix): the local clock's stamp and the reason.  The local
\* clock may repeat a stamp (it is not monotonic), which only matters when a
\* directory of that name is already in the bucket.
SnapshotIds(b, prefix) ==
  {<<clock, prefix>>} \cup {n \in Names(b) : n[2] = prefix}

\* lines 183-189 and 118-121: a new attempt with a new id; the first manifest
\* of the quiet window
CaptureAttempt(t) ==
  /\ pc[t] = "c_attempt"
  /\ \E id \in SnapshotIds(loc[t].bucket, loc[t].reason) :
       LET l == [loc[t] EXCEPT !.attempt = @ + 1, !.snap_id = id]
           stg == [staging EXCEPT ![l.bucket] = CleanupStaging(@, id)]
       IN IF cfg.quiet_window_ms <= 0
            THEN /\ SetThread(t, "c_before", l)
                 /\ staging' = stg
                 /\ UNCHANGED <<lockOwner, lockCount>>
          ELSE IF ~live.exists
            THEN FailAttempt(t, l, "DirectoryMissing", stg)
          ELSE /\ SetThread(t, "c_before",
                            [l EXCEPT !.first = build_manifest(live, FALSE)])
               /\ staging' = stg
               /\ UNCHANGED <<lockOwner, lockCount>>
  /\ UNCHANGED <<live, newDir, oldDir, store, gameRunning, clock, cfg, monVars>>

\* _wait_for_quiet, line 124
QuietChangedMutant(first, second) == FALSE
QuietChanged(first, second) == first # second

\* line 193
IsDuplicateMutant(dedupe, source_hash, latest) == FALSE
IsDuplicate(dedupe, source_hash, latest) == dedupe /\ source_hash = latest

\* lines 122-125 and 191-194: the second manifest of the quiet window, the
\* hashed manifest before the copy, the dedupe test
CaptureBefore(t) ==
  /\ pc[t] = "c_before"
  /\ LET l == loc[t]
         quiet == cfg.quiet_window_ms > 0
         second == build_manifest(live, FALSE)
         before_manifest == build_manifest(live, TRUE)
         source_hash == manifest_digest(before_manifest)
     IN IF ~live.exists
          THEN FailAttempt(t, l, "DirectoryMissing", staging)
        ELSE IF quiet /\ QuietChanged(l.first, second)
          THEN FailAttempt(t, l, "SourceChanged", staging)
        ELSE IF IsDuplicate(l.dedupe, source_hash, latest_source_hash(l.bucket))
          THEN ReturnFromCapture(t, l, NoneResult) /\ UNCHANGED staging
        ELSE /\ SetThread(t, "c_copy",
                          [l EXCEPT !.before = before_manifest,
                                    !.h_quiet = IF ~quiet THEN "skipped"
                                                ELSE IF l.first = second THEN "equal"
                                                ELSE "differ"])
             /\ UNCHANGED <<staging, lockOwner, lockCount>>
  /\ UNCHANGED <<live, newDir, oldDir, store, gameRunning, clock, cfg, monVars>>

\* lines 196-197: staging_dir.mkdir, _copy_profile_tree (copy2 keeps mtime)
CaptureCopy(t) ==
  /\ pc[t] = "c_copy"
  /\ LET l == loc[t] IN
       IF ~live.exists
         THEN FailAttempt(t, l, "CopyFailed", staging)
         ELSE /\ staging' = [staging EXCEPT ![l.bucket] =
                               CleanupStaging(@, l.snap_id) \cup
                                 {[name |-> l.snap_id, files |-> live.files]}]
              /\ SetThread(t, "c_after", l)
              /\ UNCHANGED <<lockOwner, lockCount>>
  /\ UNCHANGED <<live, newDir, oldDir, store, gameRunning, clock, cfg, monVars>>

StagingDirOf(l) == CHOOSE d \in staging[l.bucket] : d.name = l.snap_id

\* line 200
SourceChangedMutant(before_manifest, after_manifest) == FALSE
SourceChanged(before_manifest, after_manifest) == before_manifest # after_manifest

\* line 204
CopyMismatch(before_manifest, staging_manifest) ==
  ~manifest_equal_for_copy(before_manifest, staging_manifest)

\* lines 199-205: the source must not have changed during the copy, and the
\* copy must equal the manifest taken before it
CaptureAfter(t) ==
  /\ pc[t] = "c_after"
  /\ LET l == loc[t]
         after_manifest == build_manifest(live, TRUE)
         staging_manifest == build_manifest(Dir(StagingDirOf(l).files), TRUE)
     IN IF ~live.exists
          THEN FailAttempt(t, l, "DirectoryMissing", staging)
        ELSE IF SourceChanged(l.before, after_manifest)
          THEN FailAttempt(t, l, "SourceChangedDuringCopy", staging)
        ELSE IF CopyMismatch(l.before, staging_manifest)
          THEN FailAttempt(t, l, "CopyMismatch", staging)
        ELSE /\ SetThread(t, "c_validate", [l EXCEPT !.h_after = after_manifest])
             /\ UNCHANGED <<staging, lockOwner, lockCount>>
  /\ UNCHANGED <<live, newDir, oldDir, store, gameRunning, clock, cfg, monVars>>

\* _validate_staging: read_inraid returned a bool, exceptions give False
validate_staging(value) == IsBool(value)

\* lines 211-223
NewInfo(l, created_at) ==
  [snapshot_id |-> l.snap_id, bucket |-> l.bucket, reason |-> l.reason,
   created_at |-> created_at, inraid_at_capture |-> l.inraid_at_capture,
   pre_raid_anchor |-> FALSE, integrity_ok |-> TRUE,
   source_hash |-> manifest_digest(l.before),
   snapshot_size_bytes |-> SumSizes(l.before, DOMAIN l.before),
   path |-> PathOf(l.bucket, l.snap_id), profile |-> cfg.profile]

\* lines 207-230: validate the staging copy, write meta.json into it, rename
\* it to its final name, apply retention, return the record
CaptureValidate(t) ==
  /\ pc[t] = "c_validate"
  /\ \E value \in read_inraid(Dir(StagingDirOf(loc[t]).files)) :
       LET l == [loc[t] EXCEPT !.h_value = value]
           info == NewInfo(l, clock)
           final == SnapDir(l.bucket_profile, l.snap_id, StagingDirOf(l).files, info, clock)
       IN IF ~validate_staging(value)
            THEN FailAttempt(t, l, "ValidationFailed", staging) /\ UNCHANGED <<store, clock>>
          ELSE IF \E d \in store[l.bucket] :
                    d.name = l.snap_id /\ d.under = l.bucket_profile
            THEN FailAttempt(t, l, "IdCollision", staging) /\ UNCHANGED <<store, clock>>
          ELSE /\ store' = apply_retention(
                             [store EXCEPT ![l.bucket] = @ \cup {final}], l.bucket)
               /\ staging' = [staging EXCEPT ![l.bucket] =
                                {d \in @ : d.name # l.snap_id}]
               /\ clock' = clock + 1
               /\ ReturnFromCapture(t, l, InfoResult(info))
  /\ UNCHANGED <<live, newDir, oldDir, gameRunning, cfg, monVars>>


(* --------------------------- restore_snapshot -------------------------- *)
\* the GUI restores a record it listed (gui.py 1003-1008, 1087-1114)
RestoreTargets ==
  UNION {{list_snapshots(b, FALSE)[i] : i \in 1..Len(list_snapshots(b, FALSE))} :
           b \in GUI_BUCKETS}

TargetDirs(l) == {d \in store[l.target.path[1]] : d.name = l.target.path[2]}

\* line 320
ProcessActiveMutant(running) == FALSE
ProcessActive(running) == running

\* the worker thread calls restore_snapshot; lines 319-332 and 173-181: take
\* the lock, refuse while the game runs, the target must exist, then enter
\* capture_snapshot for the pre-restore backup (the lock is taken again)
RestoreEnter(t) ==
  /\ t = "worker"
  /\ pc[t] = "idle"
  /\ clock <= MaxPublished
  /\ CanAcquire(t)
  /\ \E target \in RestoreTargets, q \in PresenceQuery :
       LET running == is_darkest_running(q)
           l0 == [IdleLoc EXCEPT !.op = "restore", !.target = target, !.h_pre = live,
                                !.h_running = running,
                                !.caller = "restore",
                                !.bucket = BUCKET_CLOSED_MANUAL,
                                !.reason = "pre_restore_backup",
                                !.inraid_at_capture = "None",
                                !.dedupe = FALSE]
           l == [l0 EXCEPT !.h_query = q]
       IN IF ProcessActive(running)
            THEN /\ SetThread(t, "idle",
                              [l EXCEPT !.result = ErrorResult("ProcessActive", "")])
                 /\ UNCHANGED <<lockOwner, lockCount>>
          ELSE IF TargetDirs(l) = {}
            THEN /\ SetThread(t, "idle",
                              [l EXCEPT !.result = ErrorResult("TargetMissing", "")])
                 /\ UNCHANGED <<lockOwner, lockCount>>
          ELSE IF ~live.exists
            THEN /\ SetThread(t, "idle",
                              [l EXCEPT !.result = ErrorResult("SourceMissing", "")])
                 /\ UNCHANGED <<lockOwner, lockCount>>
          ELSE /\ AcquireTwice(t)
               /\ pc' = [pc EXCEPT ![t] = "c_attempt"]
               /\ loc' = [loc EXCEPT ![t] = l0]
               /\ ret' = [thread |-> "none", l |-> l]
  /\ UNCHANGED <<live, newDir, oldDir, store, staging, gameRunning, clock, cfg, monVars>>

\* _cleanup_dir(path): the path after shutil.rmtree
cleanup_dirMutant(d) == d
cleanup_dir(d) == MissingDir

\* lines 369-373: the rollback removes the live directory if it exists, then
\* renames '.__old' back if it exists.  rb tells whether that rename
\* succeeded; its exception is logged and swallowed (374-375).
RollbackLiveMutant(lv, od, rb) == cleanup_dir(lv)
RollbackLive(lv, od, rb) == IF od.exists /\ rb = "ok" THEN od ELSE cleanup_dir(lv)
RollbackOld(od, rb) == IF od.exists /\ rb = "ok" THEN MissingDir ELSE od
RollbackOutcomes(od) == IF od.exists THEN {"ok", "failed"} ELSE {"ok"}

\* restore_snapshot raises exc after its rollback and its finally clause
\* (line 378), with lv, nd, od the three directories when exc was raised
RestoreFailsMutant(t, l, exc, lv, nd, od) ==
  \E rb \in RollbackOutcomes(od) :
    /\ live' = RollbackLive(lv, od, rb)
    /\ oldDir' = RollbackOld(od, rb)
    /\ newDir' = cleanup_dir(nd)
    /\ SetThread(t, "idle",
                 [l EXCEPT !.result = ErrorResult(IF od.exists /\ rb = "failed"
                                                    THEN "RollbackFailed" ELSE exc, ""),
                           !.h_rollback = IF od.exists THEN rb ELSE "none"])
    /\ Release(1)
RestoreFails(t, l, exc, lv, nd, od) ==
  \E rb \in RollbackOutcomes(od) :
    /\ live' = RollbackLive(lv, od, rb)
    /\ oldDir' = RollbackOld(od, rb)
    /\ newDir' = cleanup_dir(nd)
    /\ SetThread(t, "idle",
                 [l EXCEPT !.result = ErrorResult(exc, ""),
                           !.h_rollback = IF od.exists THEN rb ELSE "none"])
    /\ Release(1)

\* the files restore stages: the target's children except meta.json
StagedFiles(l) == (CHOOSE d \in TargetDirs(l) : TRUE).files

\* where an I/O failure may strike in lines 345-356
SwapFaults == {"none", "staging", "rename1", "rename2"}

\* lines 336-356: clean the siblings, stage the target into '.__new', rename
\* live to '.__old' and '.__new' to live; on an exception roll back
RestoreSwap(t) ==
  /\ pc[t] = "r_swap"
  /\ \E fault \in SwapFaults :
       LET l == [loc[t] EXCEPT !.h_fault = fault] IN
       IF fault = "staging" \/ TargetDirs(l) = {}
         THEN RestoreFails(t, [l EXCEPT !.h_fault = "staging"], "StagingFailed",
                           live, Dir(NoFiles), cleanup_dir(oldDir))
       ELSE IF fault = "rename1" \/ ~live.exists
         THEN RestoreFails(t, [l EXCEPT !.h_fault = "rename1"], "RenameFailed",
                           live, Dir(StagedFiles(l)), cleanup_dir(oldDir))
       ELSE IF fault = "rename2"
         THEN RestoreFails(t, l, "RenameFailed", MissingDir, Dir(StagedFiles(l)), live)
       ELSE /\ live' = Dir(StagedFiles(l))
            /\ oldDir' = live
            /\ newDir' = MissingDir
            /\ SetThread(t, "r_validate", l)
            /\ UNCHANGED <<lockOwner, lockCount>>
  /\ UNCHANGED <<store, staging, gameRunning, clock, cfg, monVars>>

\* lines 358-366: re-validate the new live directory, drop '.__old', return
\* the backup; on an exception roll back
RestoreValidate(t) ==
  /\ pc[t] = "r_validate"
  /\ \E value \in read_inraid(live) :
       IF IsBool(value)
         THEN /\ oldDir' = cleanup_dir(oldDir)
              /\ newDir' = cleanup_dir(newDir)
              /\ SetThread(t, "idle", [loc[t] EXCEPT !.result = InfoResult(loc[t].backup)])
              /\ Release(1)
              /\ UNCHANGED live
         ELSE RestoreFails(t, [loc[t] EXCEPT !.h_fault = "validate"],
                           "RestoreValidationFailed", live, newDir, oldDir)
  /\ UNCHANGED <<store, staging, gameRunning, clock, cfg, monVars>>


(* ----------------------------- clear_bucket ---------------------------- *)
\* the monitor loop clears the polling bucket (monitor.py 139, 292, 295);
\* line 158
\* bucket_dir.iterdir() (line 162) may raise OSError
ClearFaults == {"none", "OSError"}

ClearCall(t, b, cont) ==
  /\ Acquire(t)
  /\ SetThread(t, "k_body",
               [IdleLoc EXCEPT !.op = "clear", !.bucket = b, !.cont = cont])
  /\ UNCHANGED <<live, newDir, oldDir, store, staging, gameRunning, clock, cfg>>

\* the loop clears the polling bucket (monitor.py 291-295)
ClearEnter(t) ==
  /\ t = "loop"
  /\ pc[t] = "idle"
  /\ clock <= MaxPublished
  /\ ClearCall(t, BUCKET_RUNTIME_POLL_TEMP, "idle")
  /\ UNCHANGED monVars

\* lines 159-164: every child directory of the bucket is removed
ClearBody(t) ==
  /\ pc[t] = "k_body"
  /\ \E fault \in ClearFaults :
       IF fault = "none"
         THEN /\ store' = [store EXCEPT ![loc[t].bucket] =
                               {d \in @ : d.under # cfg.profile}]
              /\ staging' = [staging EXCEPT ![loc[t].bucket] = {}]
              /\ SetThread(t, "idle", [loc[t] EXCEPT !.result = NoneResult])
         ELSE /\ UNCHANGED <<store, staging>>
              /\ SetThread(t, "idle", [loc[t] EXCEPT !.result = ErrorResult(fault, "")])
  /\ Release(1)
  /\ UNCHANGED <<live, newDir, oldDir, gameRunning, clock, cfg, monVars>>

(* -------------------- promote_latest_poll_to_pre_raid ------------------ *)
\* the monitor loop promotes with cutoff now_utc() (monitor.py 285);
\* line 276
PromoteCall(t, cont) ==
  /\ Acquire(t)
  /\ SetThread(t, "p_body", [IdleLoc EXCEPT !.op = "promote", !.cont = cont])
  /\ UNCHANGED <<live, newDir, oldDir, store, staging, gameRunning, clock, cfg>>

PromoteEnter(t) ==
  /\ t = "loop"
  /\ pc[t] = "idle"
  /\ clock <= MaxPublished
  /\ PromoteCall(t, "idle")
  /\ UNCHANGED monVars

\* lines 281-286: the newest polling record created at or before the cutoff
\* (the first such record of the newest-first list)
PromoteTargetMutant(polls, at_or_before) ==
  IF polls = <<>> THEN NoInfo ELSE polls[1]
PromoteTarget(polls, at_or_before) ==
  LET ok == {i \in 1..Len(polls) : polls[i].created_at <= at_or_before}
  IN IF ok = {} THEN NoInfo
     ELSE polls[CHOOSE i \in ok :
                  /\ \A j \in ok : polls[j].created_at <= polls[i].created_at
                  /\ \A j \in ok : polls[j].created_at = polls[i].created_at => i <= j]

\* lines 290-296: clear pre_raid_anchor in the meta.json of every valid
\* record of the pre-raid bucket that has it set
ClearAnchorsMutant(st) == st
ClearAnchors(st) ==
  LET flagged == {x.path : x \in {y \in CollectInfos(st, BUCKET_PRE_RAID_AUTO, FALSE) :
                                    y.integrity_ok /\ y.pre_raid_anchor}}
  IN [b \in BUCKETS |->
        {IF d.hasMeta /\ d.meta.path \in flagged /\ PathOf(b, d.name) \in flagged
           THEN [d EXCEPT !.meta.pre_raid_anchor = FALSE] ELSE d : d \in st[b]}]

\* lines 305-310
Promoted(target, new_id) ==
  [target EXCEPT !.snapshot_id = new_id, !.bucket = BUCKET_PRE_RAID_AUTO,
                 !.reason = "pre_raid_auto", !.pre_raid_anchor = TRUE,
                 !.path = PathOf(BUCKET_PRE_RAID_AUTO, new_id)]

\* lines 277-316
PromoteBody(t) ==
  /\ pc[t] = "p_body"
  /\ LET polls == list_snapshots(BUCKET_RUNTIME_POLL_TEMP, FALSE)
         target == PromoteTarget(polls, clock)
         srcs == {d \in store[target.path[1]] : d.name = target.path[2]}
     IN IF target = NoInfo
          THEN /\ SetThread(t, "idle", [loc[t] EXCEPT !.result = NoneResult])
               /\ UNCHANGED <<store, staging, clock>>
          ELSE \E new_id \in SnapshotIds(BUCKET_PRE_RAID_AUTO, "pre_raid_auto") :
                 IF srcs = {} \/ new_id \in Names(BUCKET_PRE_RAID_AUTO)
                   THEN \* shutil.copytree raises: the flags stay cleared
                        /\ store' = ClearAnchors(store)
                        /\ SetThread(t, "idle",
                                     [loc[t] EXCEPT !.result = ErrorResult("CopyFailed", "")])
                        /\ UNCHANGED <<staging, clock>>
                   ELSE LET src == CHOOSE d \in srcs : TRUE
                            promoted == Promoted(target, new_id)
                            dst == SnapDir(cfg.profile, new_id, src.files, promoted, clock)
                            st1 == ClearAnchors(store)
                            st2 == [st1 EXCEPT ![BUCKET_PRE_RAID_AUTO] = @ \cup {dst}]
                            st3 == apply_retention(st2, BUCKET_PRE_RAID_AUTO)
                        IN /\ store' = [st3 EXCEPT ![BUCKET_RUNTIME_POLL_TEMP] =
                                           {d \in @ : d.under # cfg.profile}]
                           /\ staging' = [staging EXCEPT ![BUCKET_RUNTIME_POLL_TEMP] = {}]
                           /\ clock' = clock + 1
                           /\ SetThread(t, "idle",
                                        [loc[t] EXCEPT !.result = InfoResult(promoted)])
  /\ Release(1)
  /\ UNCHANGED <<live, newDir, oldDir, gameRunning, cfg, monVars>>

(* ------------------------------ monitor.py ----------------------------- *)
\* the queue is unbounded; the model lets a producer run only while the
\* events it may put fit into MaxQueue places
Room(n) == Len(events) + n <= MaxQueue

\* _emit (lines 120-122): queue.Queue.put appends at the tail
_emitMutant(q, type, by) == <<[type |-> type, by |-> by]>> \o q
_emit(q, type, by) == Append(q, [type |-> type, by |-> by])

\* _set_error (lines 124-128); self.last_error is not modelled
_set_errorMutant(q, by) == q
_set_error(q, by) == _emit(q, "error", by)

\* the variables of the manager a step of the engine itself leaves alone
managerVars == <<live, newDir, oldDir, store, staging, gameRunning, lockOwner,
                 lockCount, clock, cfg>>

\* thread t goes on to p inside the engine; r is what the step reports
Goto(t, p, r) ==
  /\ pc' = [pc EXCEPT ![t] = p]
  /\ loc' = [loc EXCEPT ![t] = IdleLoc]
  /\ ret' = r

\* an operation of the engine returns res to its caller
EngineReturn(t, op, res) == [thread |-> t, l |-> [IdleLoc EXCEPT !.op = op, !.result = res]]

\* read_inraid wrapped in try/except (lines 203-206, 223-226): None on failure
InraidOrNone(v) == IF v = "raise" THEN "None" ELSE v

\* trigger_manual_closed_snapshot, lines 200-212: refuse while the game
\* runs, else read the flag and call capture_snapshot
ManualEnter(t) ==
  /\ t = "worker"
  /\ pc[t] = "idle"
  /\ clock <= MaxPublished
  /\ \E q \in PresenceQuery :
       IF is_darkest_running(q)
         THEN /\ ret' = EngineReturn(t, "manual", ErrorResult("ProcessActive", ""))
              /\ UNCHANGED <<pc, loc, managerVars>>
         ELSE \E v \in read_inraid(live) :
                CaptureCall(t, <<BUCKET_CLOSED_MANUAL, "manual_click",
                                 InraidOrNone(v), FALSE>>, "m_return")
  /\ UNCHANGED monVars

\* lines 213-216: None raises, a record is announced and returned; an
\* exception of capture_snapshot propagates
ManualReturn(t) ==
  /\ pc[t] = "m_return"
  /\ Room(1)
  /\ LET res == loc[t].result
     IN /\ events' = IF res.kind = "info"
                       THEN _emit(events, "snapshot_created", t) ELSE events
        /\ Goto(t, "idle",
                EngineReturn(t, "manual",
                             IF res.kind = "None" THEN ErrorResult("Skipped", "")
                             ELSE res))
  /\ UNCHANGED <<managerVars, _stop_evt, _running, _thread, _f5_requested,
                 _last_inraid, tick>>

\* request_f5_snapshot (lines 163-165), called by the hotkey listener that
\* start() registers
RequestF5 ==
  /\ _running
  /\ Room(1)
  /\ _f5_requested' = TRUE
  /\ events' = _emit(events, "info", "hotkey")
  /\ ret' = NoRet
  /\ UNCHANGED <<managerVars, pc, loc, _stop_evt, _running, _thread, _last_inraid, tick>>

\* the loop threads that run
Alive == {t \in LoopThreads : pc[t] \notin {"unstarted", "exited"}}

\* start() (lines 135-149), called on the main thread.  The two
\* clear_bucket calls take the manager's lock; the legacy bucket
\* "runtime_poll" is not one of BUCKETS.  The new thread object takes a free
\* place of LoopThreads.
Start ==
  /\ ~_running
  /\ Room(2)
  /\ lockOwner = "none"
  /\ \E t \in LoopThreads \ Alive :
       /\ \A u \in LoopThreads \ Alive : t = "loop" \/ u # "loop"
       /\ pc' = [pc EXCEPT ![t] = "l_init"]
       /\ _thread' = t
  /\ store' = [store EXCEPT ![BUCKET_RUNTIME_POLL_TEMP] =
                 {d \in @ : d.under # cfg.profile}]
  /\ staging' = [staging EXCEPT ![BUCKET_RUNTIME_POLL_TEMP] = {}]
  /\ _stop_evt' = FALSE
  /\ _running' = TRUE
  /\ events' = _emit(_emit(events, "info", "main"), "hotkey", "main")
  /\ ret' = NoRet
  /\ UNCHANGED <<live, newDir, oldDir, gameRunning, lockOwner, lockCount, clock,
                 cfg, loc, _f5_requested, _last_inraid, tick>>

\* stop(), lines 151-154: the flag is set and the main thread joins the
\* loop thread
Stop ==
  /\ _running
  /\ ~_stop_evt
  /\ _stop_evt' = TRUE
  /\ ret' = NoRet
  /\ UNCHANGED <<managerVars, pc, loc, events, _running, _thread, _f5_requested,
                 _last_inraid, tick>>

\* the positions of a loop thread inside capture_snapshot, and inside any
\* call of the manager
InCapture == {"c_attempt", "c_before", "c_copy", "c_after", "c_validate"}
InManager == InCapture \cup {"k_body", "p_body"}

\* join(timeout=2.0) returns when the thread has ended, or after two seconds
\* while the thread is inside a capture (which waits for the quiet window,
\* copies the directory and runs the decoder, up to integrity_retry times)
JoinReturnsMutant(t) == pc[t] = "exited"
JoinReturns(t) == pc[t] = "exited" \/ pc[t] \in InCapture

\* stop(), lines 155-161
StopJoined ==
  /\ _running
  /\ _stop_evt
  /\ JoinReturns(_thread)
  /\ Room(1)
  /\ _running' = FALSE
  /\ events' = _emit(events, "info", "main")
  /\ ret' = NoRet
  /\ UNCHANGED <<managerVars, pc, loc, _stop_evt, _thread, _f5_requested,
                 _last_inraid, tick>>

\* _run_loop, lines 252-255: _refresh_cloud_flag reports a failed read
LoopInit(t) ==
  /\ pc[t] = "l_init"
  /\ Room(1)
  /\ \E cloud \in {"ok", "raise"} :
       events' = IF cloud = "raise" THEN _set_error(events, t) ELSE events
  /\ Goto(t, "l_cond", NoRet)
  /\ UNCHANGED <<managerVars, _stop_evt, _running, _thread, _f5_requested,
                 _last_inraid, tick>>

\* _should_read_inraid (lines 189-197); due: the read interval has passed
_should_read_inraid(game_running, due) ==
  IF ~game_running THEN FALSE
  ELSE IF _f5_requested THEN TRUE
  ELSE IF _last_inraid = "True" THEN due
  ELSE TRUE

\* lines 257-273: the loop ends when the flag is set; else a tick begins with
\* the presence check, the read of the flag, and the state event
LoopCond(t) ==
  /\ pc[t] = "l_cond"
  /\ IF _stop_evt
       THEN /\ Goto(t, "exited", NoRet)
            /\ UNCHANGED <<events, tick>>
       ELSE /\ Room(2)
            /\ \E q \in PresenceQuery, due \in BOOLEAN :
                 LET game_running == is_darkest_running(q)
                     should == _should_read_inraid(game_running, due)
                 IN \E v \in (IF should THEN read_inraid(live) ELSE {"skip"}) :
                      LET inraid == IF should
                                      THEN (IF v = "raise" THEN _last_inraid ELSE v)
                                    ELSE IF ~game_running THEN "None"
                                    ELSE _last_inraid
                          evs == IF v = "raise" THEN _set_error(events, t) ELSE events
                      IN /\ events' = _emit(evs, "state", t)
                         /\ tick' = [tick EXCEPT ![t] = [game_running |-> game_running,
                                                         inraid |-> inraid]]
                         /\ Goto(t, "l_f5",
                                 [thread |-> "none",
                                  l |-> [IdleLoc EXCEPT !.op = "tick", !.h_query = q,
                                                        !.h_value = v]])
  /\ UNCHANGED <<managerVars, _stop_evt, _running, _thread, _f5_requested, _last_inraid>>

\* lines 275-280 and trigger_f5_snapshot (218-232)
LoopF5(t) ==
  /\ pc[t] = "l_f5"
  /\ IF ~_f5_requested
       THEN /\ Goto(t, "l_promote", NoRet)
            /\ UNCHANGED <<managerVars, events, _f5_requested>>
       ELSE /\ _f5_requested' = FALSE
            /\ \E q \in PresenceQuery :
                 IF ~is_darkest_running(q)
                   THEN /\ Room(1)
                        /\ events' = _emit(events, "info", t)
                        /\ Goto(t, "l_promote", NoRet)
                        /\ UNCHANGED managerVars
                   ELSE /\ clock <= MaxPublished
                        /\ \E v \in read_inraid(live) :
                             CaptureCall(t, <<BUCKET_RUNTIME_F5, "hotkey_f5",
                                              InraidOrNone(v), FALSE>>, "l_f5_ret")
                        /\ UNCHANGED events
  /\ UNCHANGED <<_stop_evt, _running, _thread, _last_inraid, tick>>

\* what the loop puts on the queue when a call it wrapped in try/except
\* has returned res: the event of a record, the error event of an exception
Reported(q, res, type, t) ==
  IF res.kind = "info" THEN _emit(q, type, t)
  ELSE IF res.kind = "error" THEN _set_error(q, t)
  ELSE q

\* lines 233-234 and 280-281
LoopF5Return(t) ==
  /\ pc[t] = "l_f5_ret"
  /\ Room(1)
  /\ events' = Reported(events, loc[t].result, "snapshot_created", t)
  /\ Goto(t, "l_promote", [thread |-> "none", l |-> loc[t]])
  /\ UNCHANGED <<managerVars, _stop_evt, _running, _thread, _f5_requested,
                 _last_inraid, tick>>

\* lines 283-285
LoopPromote(t) ==
  /\ pc[t] = "l_promote"
  /\ IF _last_inraid = "False" /\ tick[t].inraid = "True"
       THEN PromoteCall(t, "l_promote_ret")
       ELSE /\ Goto(t, "l_clear", NoRet)
            /\ UNCHANGED managerVars
  /\ UNCHANGED monVars

\* lines 286-289
LoopPromoteReturn(t) ==
  /\ pc[t] = "l_promote_ret"
  /\ Room(1)
  /\ events' = Reported(events, loc[t].result, "anchor_set", t)
  /\ Goto(t, "l_clear", [thread |-> "none", l |-> loc[t]])
  /\ UNCHANGED <<managerVars, _stop_evt, _running, _thread, _f5_requested,
                 _last_inraid, tick>>

\* lines 291-292
LoopClear(t) ==
  /\ pc[t] = "l_clear"
  /\ IF tick[t].inraid = "True" /\ _last_inraid # "True"
       THEN ClearCall(t, BUCKET_RUNTIME_POLL_TEMP, "l_clear_ret")
       ELSE /\ Goto(t, "l_clear2", NoRet)
            /\ UNCHANGED managerVars
  /\ UNCHANGED monVars

\* lines 294-295
LoopClear2Mutant(t) ==
  /\ pc[t] = "l_clear2"
  /\ Goto(t, "l_poll", NoRet)
  /\ UNCHANGED managerVars
  /\ UNCHANGED monVars
LoopClear2(t) ==
  /\ pc[t] = "l_clear2"
  /\ IF ~tick[t].game_running
       THEN ClearCall(t, BUCKET_RUNTIME_POLL_TEMP, "l_clear2_ret")
       ELSE /\ Goto(t, "l_poll", NoRet)
            /\ UNCHANGED managerVars
  /\ UNCHANGED monVars

\* an exception of clear_bucket leaves the try block of the tick: the
\* handler of lines 317-318 reports it and the thread goes to the wait
LoopClearReturn(t) ==
  /\ pc[t] \in {"l_clear_ret", "l_clear2_ret"}
  /\ Room(1)
  /\ IF loc[t].result.kind = "error"
       THEN /\ events' = _set_error(events, t)
            /\ Goto(t, "l_wait", [thread |-> "none", l |-> loc[t]])
       ELSE /\ events' = events
            /\ Goto(t, IF pc[t] = "l_clear_ret" THEN "l_clear2" ELSE "l_poll", NoRet)
  /\ UNCHANGED <<managerVars, _stop_evt, _running, _thread, _f5_requested,
                 _last_inraid, tick>>

\* lines 297-310; due: the polling interval has passed
LoopPoll(t) ==
  /\ pc[t] = "l_poll"
  /\ _last_inraid' = IF tick[t].inraid # "None" THEN tick[t].inraid ELSE _last_inraid
  /\ \E due \in BOOLEAN :
       IF tick[t].game_running /\ tick[t].inraid = "False" /\ due
         THEN /\ clock <= MaxPublished
              /\ CaptureCall(t, <<BUCKET_RUNTIME_POLL_TEMP, "poll", "False", TRUE>>,
                             "l_poll_ret")
         ELSE /\ Goto(t, "l_wait", NoRet)
              /\ UNCHANGED managerVars
  /\ UNCHANGED <<events, _stop_evt, _running, _thread, _f5_requested, tick>>

\* lines 311-316
LoopPollReturn(t) ==
  /\ pc[t] = "l_poll_ret"
  /\ Room(1)
  /\ events' = Reported(events, loc[t].result, "info", t)
  /\ Goto(t, "l_wait", [thread |-> "none", l |-> loc[t]])
  /\ UNCHANGED <<managerVars, _stop_evt, _running, _thread, _f5_requested,
                 _last_inraid, tick>>

\* lines 320-325: _stop_evt.wait returns when the flag is set or the
\* interval has passed
WaitReturnsMutant(flag) == ~flag
WaitReturns(flag) == TRUE
LoopWait(t) ==
  /\ pc[t] = "l_wait"
  /\ WaitReturns(_stop_evt)
  /\ tick' = [tick EXCEPT ![t] = NoTick]
  /\ Goto(t, "l_cond", NoRet)
  /\ UNCHANGED <<managerVars, events, _stop_evt, _running, _thread, _f5_requested,
                 _last_inraid>>

\* gui.py _poll_events, lines 977-979: one get_nowait() of the drain loop
getMutant(q) == [event |-> q[Len(q)], rest |-> SubSeq(q, 1, Len(q) - 1)]
get(q) == [event |-> Head(q), rest |-> Tail(q)]
PollEvents ==
  /\ events # <<>>
  /\ events' = get(events).rest
  /\ ret' = [thread |-> "none",
             l |-> [IdleLoc EXCEPT !.op = "get", !.event = get(events).event]]
  /\ UNCHANGED <<managerVars, pc, loc, _stop_evt, _running, _thread, _f5_requested,
                 _last_inraid, tick>>

\* the configuration the engine runs with
MonitorConfig ==
  [retention_per_bucket |-> MaxRetention, integrity_retry |-> MaxIntegrityRetry,
   quiet_window_ms |-> 0, profile |-> 0]

\* the engine constructed, no loop thread started, the store empty; game
\* tells whether Darkest.exe runs
EngineInit(game) ==
  /\ live = InitialLive
  /\ newDir = MissingDir
  /\ oldDir = MissingDir
  /\ store = [b \in BUCKETS |-> {}]
  /\ staging = [b \in BUCKETS |-> {}]
  /\ gameRunning = game
  /\ lockOwner = "none"
  /\ lockCount = 0
  /\ pc = [t \in AllThreads |-> IF t \in LoopThreads THEN "unstarted" ELSE "idle"]
  /\ loc = [t \in AllThreads |-> IdleLoc]
  /\ clock = 1
  /\ ret = NoRet
  /\ cfg = MonitorConfig
  /\ MonInit

InitMonitor == EngineInit(FALSE)
InitLoop == EngineInit(TRUE)

\* a worker that saves on demand while the game starts and stops, and the
\* consumer of the events
NextManual ==
  \/ GameStart
  \/ GameStop
  \/ PollEvents
  \/ ManualEnter("worker")
  \/ ManualReturn("worker")
  \/ CaptureAttempt("worker")
  \/ CaptureBefore("worker")
  \/ CaptureCopy("worker")
  \/ CaptureAfter("worker")
  \/ CaptureValidate("worker")

SpecManual == InitMonitor /\ [][NextManual]_vars

\* one loop thread from start() to the stop flag while the game runs and
\* writes its directory, and the consumer of the events
NextLoop ==
  \/ SourceWrite
  \/ Start
  \/ Stop
  \/ PollEvents
  \/ LoopInit("loop")
  \/ LoopCond("loop")
  \/ LoopF5("loop")
  \/ LoopPromote("loop")
  \/ LoopPromoteReturn("loop")
  \/ LoopClear("loop")
  \/ LoopClear2("loop")
  \/ LoopClearReturn("loop")
  \/ LoopPoll("loop")
  \/ LoopPollReturn("loop")
  \/ LoopWait("loop")
  \/ CaptureAttempt("loop")
  \/ CaptureBefore("loop")
  \/ CaptureCopy("loop")
  \/ CaptureAfter("loop")
  \/ CaptureValidate("loop")
  \/ ClearBody("loop")
  \/ PromoteBody("loop")

SpecLoop == InitLoop /\ [][NextLoop]_vars

\* the same, each thread scheduled again and again: the loop thread takes
\* the step it can take, the consumer drains the queue (gui.py 1001: every
\* 200 ms)
LoopStep(t) ==
  \/ LoopInit(t) \/ LoopCond(t) \/ LoopF5(t) \/ LoopF5Return(t) \/ LoopPromote(t)
  \/ LoopPromoteReturn(t) \/ LoopClear(t) \/ LoopClear2(t) \/ LoopClearReturn(t)
  \/ LoopPoll(t) \/ LoopPollReturn(t) \/ LoopWait(t)
  \/ CaptureAttempt(t) \/ CaptureBefore(t) \/ CaptureCopy(t) \/ CaptureAfter(t)
  \/ CaptureValidate(t) \/ ClearBody(t) \/ PromoteBody(t)

\* the source directory left alone: no raid begins, so no promotion is called
NextStop ==
  \/ Start
  \/ Stop
  \/ PollEvents
  \/ LoopInit("loop")
  \/ LoopCond("loop")
  \/ LoopF5("loop")
  \/ LoopPromote("loop")
  \/ LoopClear("loop")
  \/ LoopClear2("loop")
  \/ LoopClearReturn("loop")
  \/ LoopPoll("loop")
  \/ LoopPollReturn("loop")
  \/ LoopWait("loop")
  \/ CaptureAttempt("loop")
  \/ CaptureBefore("loop")
  \/ CaptureCopy("loop")
  \/ CaptureAfter("loop")
  \/ CaptureValidate("loop")
  \/ ClearBody("loop")

SpecStop ==
  /\ InitLoop
  /\ [][NextStop]_vars
  /\ WF_vars(LoopStep("loop"))
  /\ WF_vars(PollEvents)

\* start() and stop() called again and again while the game runs
NextRestart ==
  \/ Start
  \/ Stop
  \/ StopJoined
  \/ PollEvents
  \/ \E t \in LoopThreads : LoopInit(t)
  \/ \E t \in LoopThreads : LoopCond(t)
  \/ \E t \in LoopThreads : LoopF5(t)
  \/ \E t \in LoopThreads : LoopPromote(t)
  \/ \E t \in LoopThreads : LoopClear(t)
  \/ \E t \in LoopThreads : LoopClear2(t)
  \/ \E t \in LoopThreads : LoopClearReturn(t)
  \/ \E t \in LoopThreads : LoopPoll(t)
  \/ \E t \in LoopThreads : LoopPollReturn(t)
  \/ \E t \in LoopThreads : LoopWait(t)
  \/ \E t \in LoopThreads : CaptureAttempt(t)
  \/ \E t \in LoopThreads : CaptureBefore(t)
  \/ \E t \in LoopThreads : CaptureCopy(t)
  \/ \E t \in LoopThreads : CaptureAfter(t)
  \/ \E t \in LoopThreads : CaptureValidate(t)
  \/ \E t \in LoopThreads : ClearBody(t)

SpecRestart == InitLoop /\ [][NextRestart]_vars

(* ------------------------------- Next ---------------------------------- *)
Next ==
  \/ GameStart
  \/ GameStop
  \/ SourceWrite
  \/ \E t \in Threads : CaptureEnter(t)
  \/ \E t \in Threads : CaptureAttempt(t)
  \/ \E t \in Threads : CaptureBefore(t)
  \/ \E t \in Threads : CaptureCopy(t)
  \/ \E t \in Threads : CaptureAfter(t)
  \/ \E t \in Threads : CaptureValidate(t)
  \/ \E t \in Threads : RestoreEnter(t)
  \/ \E t \in Threads : RestoreSwap(t)
  \/ \E t \in Threads : RestoreValidate(t)
  \/ \E t \in Threads : ClearEnter(t)
  \/ \E t \in Threads : ClearBody(t)
  \/ \E t \in Threads : PromoteEnter(t)
  \/ \E t \in Threads : PromoteBody(t)

Spec == Init /\ [][Next]_vars


\* the capture protocol alone
NextCapture ==
  \/ GameStart
  \/ GameStop
  \/ SourceWrite
  \/ \E t \in Threads : CaptureEnter(t)
  \/ \E t \in Threads : CaptureAttempt(t)
  \/ \E t \in Threads : CaptureBefore(t)
  \/ \E t \in Threads : CaptureCopy(t)
  \/ \E t \in Threads : CaptureAfter(t)
  \/ \E t \in Threads : CaptureValidate(t)

SpecCapture == Init /\ [][NextCapture]_vars

\* capture_snapshot as a function of its arguments: called on a bucket that
\* keeps retention_per_bucket records, with dedupe_on_source_hash set or
\* unset, over a store in which the bucket holds a record of an earlier
\* session taken from the source as it is at the beginning
InitDedupe ==
  /\ live = InitialLive
  /\ newDir = MissingDir
  /\ oldDir = MissingDir
  /\ store = [b \in BUCKETS |->
                IF b = BUCKET_RUNTIME_F5
                  THEN {SnapDir(0, <<0, "hotkey_f5">>, InitialLive.files,
                          [NoInfo EXCEPT
                             !.snapshot_id = <<0, "hotkey_f5">>,
                             !.bucket = BUCKET_RUNTIME_F5,
                             !.reason = "hotkey_f5", !.created_at = 0,
                             !.integrity_ok = TRUE,
                             !.source_hash = manifest_digest(build_manifest(InitialLive, TRUE)),
                             !.snapshot_size_bytes = 1,
                             !.path = PathOf(BUCKET_RUNTIME_F5, <<0, "hotkey_f5">>)],
                          0)}
                  ELSE {}]
  /\ staging = [b \in BUCKETS |-> {}]
  /\ gameRunning = TRUE
  /\ lockOwner = "none"
  /\ lockCount = 0
  /\ pc = [t \in AllThreads |-> "idle"]
  /\ loc = [t \in AllThreads |-> IdleLoc]
  /\ clock = 1
  /\ ret = NoRet
  /\ cfg \in Configs
  /\ MonInit

\* capture_snapshot, lines 166-181: the arguments of a caller
DedupeEnter(t) ==
  /\ pc[t] = "idle"
  /\ clock <= MaxPublished
  /\ \E b \in {BUCKET_RUNTIME_F5, BUCKET_RUNTIME_POLL_TEMP}, dedupe \in BOOLEAN :
       CaptureCall(t, <<b, "hotkey_f5", "None", dedupe>>, "idle")
  /\ UNCHANGED monVars

NextDedupe ==
  \/ SourceWrite
  \/ DedupeEnter("worker")
  \/ CaptureAttempt("worker")
  \/ CaptureBefore("worker")
  \/ CaptureCopy("worker")
  \/ CaptureAfter("worker")
  \/ CaptureValidate("worker")

SpecDedupe == InitDedupe /\ [][NextDedupe]_vars

\* gui.py on_profile_change, lines 935-953, called while the monitoring is
\* stopped: the GUI thread assigns the profile in the configuration object
\* the manager and the engine share (cli.py 106-107) without taking the
\* manager's lock, on_profile_changed resets the engine's flags and puts an
\* 'info' event, and _drain_events empties the queue
on_profile_change ==
  /\ ~_running
  /\ \E new_profile \in {0, 1} \ {cfg.profile} :
       cfg' = [cfg EXCEPT !.profile = new_profile]
  /\ _f5_requested' = FALSE
  /\ _last_inraid' = "None"
  /\ events' = <<>>
  /\ ret' = NoRet
  /\ UNCHANGED <<live, newDir, oldDir, store, staging, gameRunning, lockOwner,
                 lockCount, pc, loc, clock, _stop_evt, _running, _thread, tick>>

\* a worker that saves on demand and the polling captures of a loop thread
\* that outlives stop() (the join of line 156 timed out) while the user
\* selects another profile
NextProfile ==
  \/ on_profile_change
  \/ \E t \in Threads : CaptureEnter(t)
  \/ \E t \in Threads : CaptureAttempt(t)
  \/ \E t \in Threads : CaptureBefore(t)
  \/ \E t \in Threads : CaptureCopy(t)
  \/ \E t \in Threads : CaptureAfter(t)
  \/ \E t \in Threads : CaptureValidate(t)

SpecProfile == Init /\ [][NextProfile]_vars

\* the same over a store in which the other profile has a manual record of
\* an earlier session
InitFrame ==
  /\ live = InitialLive
  /\ newDir = MissingDir
  /\ oldDir = MissingDir
  /\ store = [b \in BUCKETS |->
                IF b = BUCKET_CLOSED_MANUAL
                  THEN {SnapDir(1, <<0, "manual_click">>, InitialLive.files,
                          [NoInfo EXCEPT
                             !.snapshot_id = <<0, "manual_click">>,
                             !.bucket = BUCKET_CLOSED_MANUAL,
                             !.reason = "manual_click", !.created_at = 0,
                             !.integrity_ok = TRUE,
                             !.source_hash = manifest_digest(build_manifest(InitialLive, TRUE)),
                             !.snapshot_size_bytes = 1,
                             !.path = PathOf(BUCKET_CLOSED_MANUAL, <<0, "manual_click">>),
                             !.profile = 1],
                          0)}
                  ELSE {}]
  /\ staging = [b \in BUCKETS |-> {}]
  /\ gameRunning = FALSE
  /\ lockOwner = "none"
  /\ lockCount = 0
  /\ pc = [t \in AllThreads |-> "idle"]
  /\ loc = [t \in AllThreads |-> IdleLoc]
  /\ clock = 1
  /\ ret = NoRet
  /\ cfg \in Configs
  /\ MonInit

SpecFrame == InitFrame /\ [][NextProfile]_vars

\* a source directory seeded with three files, an empty store, and a worker
\* that saves on demand; nothing writes to the source
InitEndToEnd ==
  /\ \E a \in PersistVals :
       live = Dir([p \in Paths |-> IF p = PERSIST THEN a
                                   ELSE [sha256 |-> "R", mtime_ns |-> 1]])
  /\ newDir = MissingDir
  /\ oldDir = MissingDir
  /\ store = [b \in BUCKETS |-> {}]
  /\ staging = [b \in BUCKETS |-> {}]
  /\ gameRunning = FALSE
  /\ lockOwner = "none"
  /\ lockCount = 0
  /\ pc = [t \in AllThreads |-> "idle"]
  /\ loc = [t \in AllThreads |-> IdleLoc]
  /\ clock = 1
  /\ ret = NoRet
  /\ cfg \in Configs
  /\ MonInit

NextEndToEnd ==
  \/ CaptureEnter("worker")
  \/ CaptureAttempt("worker")
  \/ CaptureBefore("worker")
  \/ CaptureCopy("worker")
  \/ CaptureAfter("worker")
  \/ CaptureValidate("worker")

SpecEndToEnd == InitEndToEnd /\ [][NextEndToEnd]_vars

\* the worker thread alone: manual captures and restores
NextRestore ==
  \/ GameStart
  \/ GameStop
  \/ SourceWrite
  \/ CaptureEnter("worker")
  \/ CaptureAttempt("worker")
  \/ CaptureBefore("worker")
  \/ CaptureCopy("worker")
  \/ CaptureAfter("worker")
  \/ CaptureValidate("worker")
  \/ RestoreEnter("worker")
  \/ RestoreSwap("worker")
  \/ RestoreValidate("worker")

SpecRestore == Init /\ [][NextRestore]_vars

\* every operation of the manager on both threads, the game not running
NextLock ==
  \/ \E t \in Threads : CaptureEnter(t)
  \/ \E t \in Threads : CaptureAttempt(t)
  \/ \E t \in Threads : CaptureBefore(t)
  \/ \E t \in Threads : CaptureCopy(t)
  \/ \E t \in Threads : CaptureAfter(t)
  \/ \E t \in Threads : CaptureValidate(t)
  \/ \E t \in Threads : RestoreEnter(t)
  \/ \E t \in Threads : RestoreSwap(t)
  \/ \E t \in Threads : RestoreValidate(t)
  \/ \E t \in Threads : ClearEnter(t)
  \/ \E t \in Threads : ClearBody(t)
  \/ \E t \in Threads : PromoteEnter(t)
  \/ \E t \in Threads : PromoteBody(t)

SpecLock == Init /\ [][NextLock]_vars

(* ------------------ the monitor loop's use of the store ---------------- *)
\* an anchor promoted by an earlier run of the program
PriorAnchor ==
  SnapDir(0, <<0, "pre_raid_auto">>, InitialLive.files,
          [NoInfo EXCEPT !.snapshot_id = <<0, "pre_raid_auto">>,
                         !.bucket = BUCKET_PRE_RAID_AUTO,
                         !.reason = "pre_raid_auto", !.created_at = 0,
                         !.inraid_at_capture = "False", !.pre_raid_anchor = TRUE,
                         !.integrity_ok = TRUE,
                         !.source_hash = manifest_digest(build_manifest(InitialLive, TRUE)),
                         !.snapshot_size_bytes = 1,
                         !.path = PathOf(BUCKET_PRE_RAID_AUTO, <<0, "pre_raid_auto">>)],
          0)

\* the manager is constructed over a store with or without an earlier anchor
InitPromote ==
  /\ live = InitialLive
  /\ newDir = MissingDir
  /\ oldDir = MissingDir
  /\ \E S \in {{}, {PriorAnchor}} :
       store = [b \in BUCKETS |-> IF b = BUCKET_PRE_RAID_AUTO THEN S ELSE {}]
  /\ staging = [b \in BUCKETS |-> {}]
  /\ gameRunning = FALSE
  /\ lockOwner = "none"
  /\ lockCount = 0
  /\ pc = [t \in AllThreads |-> "idle"]
  /\ loc = [t \in AllThreads |-> IdleLoc]
  /\ clock = 1
  /\ ret = NoRet
  /\ cfg \in Configs
  /\ MonInit

\* something other than the manager leaves a directory without a readable
\* meta.json in the pre-raid bucket (an interrupted copy, a damaged
\* meta.json) while a polling record waits; list_snapshots (lines 251-268)
\* lists it by its mtime
StrayDir ==
  /\ \A d \in store[BUCKET_PRE_RAID_AUTO] : d.hasMeta
  /\ store[BUCKET_RUNTIME_POLL_TEMP] # {}
  /\ store' = [store EXCEPT ![BUCKET_PRE_RAID_AUTO] =
                 @ \cup {[name |-> <<clock, "stray">>, files |-> NoFiles,
                          hasMeta |-> FALSE, meta |-> NoInfo, mtime |-> clock,
                          under |-> cfg.profile]}]
  /\ ret' = NoRet
  /\ UNCHANGED <<live, newDir, oldDir, staging, gameRunning, lockOwner, lockCount,
                 pc, loc, clock, cfg, monVars>>

\* the loop thread: polling captures, promotions and clears, while the game
\* runs and writes
NextPromote ==
  \/ StrayDir
  \/ GameStart
  \/ GameStop
  \/ SourceWrite
  \/ CaptureEnter("loop")
  \/ CaptureAttempt("loop")
  \/ CaptureBefore("loop")
  \/ CaptureCopy("loop")
  \/ CaptureAfter("loop")
  \/ CaptureValidate("loop")
  \/ ClearEnter("loop")
  \/ ClearBody("loop")
  \/ PromoteEnter("loop")
  \/ PromoteBody("loop")

SpecPromote == InitPromote /\ [][NextPromote]_vars

\* the loop of a later session: the pre-raid bucket may hold the anchor of an
\* earlier one (start() only empties the polling bucket, monitor.py lines 139-140)
InitAnchor ==
  /\ live = InitialLive
  /\ newDir = MissingDir
  /\ oldDir = MissingDir
  /\ store = [b \in BUCKETS |-> IF b = BUCKET_PRE_RAID_AUTO THEN {PriorAnchor} ELSE {}]
  /\ staging = [b \in BUCKETS |-> {}]
  /\ gameRunning = TRUE
  /\ lockOwner = "none"
  /\ lockCount = 0
  /\ pc = [t \in AllThreads |-> IF t \in LoopThreads THEN "unstarted" ELSE "idle"]
  /\ loc = [t \in AllThreads |-> IdleLoc]
  /\ clock = 1
  /\ ret = NoRet
  /\ cfg = MonitorConfig
  /\ MonInit

SpecAnchor == InitAnchor /\ [][NextLoop]_vars

\* the running loop and the hotkey listener: requests arrive at any time
\* while the game runs and is closed
NextF5 ==
  \/ GameStop
  \/ RequestF5
  \/ Start
  \/ PollEvents
  \/ LoopInit("loop")
  \/ LoopCond("loop")
  \/ LoopF5("loop")
  \/ LoopF5Return("loop")
  \/ LoopPromote("loop")
  \/ LoopClear("loop")
  \/ LoopClear2("loop")
  \/ LoopClearReturn("loop")
  \/ LoopPoll("loop")
  \/ LoopPollReturn("loop")
  \/ LoopWait("loop")
  \/ CaptureAttempt("loop")
  \/ CaptureBefore("loop")
  \/ CaptureCopy("loop")
  \/ CaptureAfter("loop")
  \/ CaptureValidate("loop")
  \/ ClearBody("loop")

SpecF5 == InitLoop /\ [][NextF5]_vars

(* --------------------------- _apply_retention -------------------------- *)
\* what child directory number i of bucket b may be on disk: a snapshot with
\* its meta.json, or a directory without one (listed by its mtime)
StoredDirs(b, i) ==
  {SnapDir(0, <<i, "stored">>, NoFiles,
           [NoInfo EXCEPT !.snapshot_id = <<i, "stored">>, !.bucket = b,
                          !.reason = "stored", !.created_at = c,
                          !.integrity_ok = TRUE,
                          !.path = PathOf(b, <<i, "stored">>)], c) : c \in 1..2}
  \cup {[name |-> <<i, "stored">>, files |-> NoFiles, hasMeta |-> FALSE,
         meta |-> NoInfo, mtime |-> c, under |-> 0] : c \in 1..2}

\* the contents a bucket directory may have
BucketContents(b) ==
  {S \in SUBSET (UNION {StoredDirs(b, i) : i \in 1..MaxStored}) :
     \A x, y \in S : x.name = y.name => x = y}

\* the manager is constructed over a store that holds earlier snapshots
InitRetention ==
  /\ live = InitialLive
  /\ newDir = MissingDir
  /\ oldDir = MissingDir
  /\ \E b \in {BUCKET_CLOSED_MANUAL, BUCKET_RUNTIME_POLL_TEMP} :
       \E S \in BucketContents(b) :
         store = [x \in BUCKETS |-> IF x = b THEN S ELSE {}]
  \* a '.staging_*' directory an interrupted capture may have left
  /\ \E left \in SUBSET {[name |-> <<0, "stored">>, files |-> NoFiles]} :
       staging = [b \in BUCKETS |-> left]
  /\ gameRunning = FALSE
  /\ lockOwner = "none"
  /\ lockCount = 0
  /\ pc = [t \in AllThreads |-> "idle"]
  /\ loc = [t \in AllThreads |-> IdleLoc]
  /\ clock = 1
  /\ ret = NoRet
  /\ cfg \in [retention_per_bucket : 1..MaxRetention,
              integrity_retry : {MaxIntegrityRetry},
              quiet_window_ms : {QuietWindowDefault},
              profile : {0}]
  /\ MonInit

\* _apply_retention(b), lines 150-155
ApplyRetention(b) ==
  /\ store' = apply_retention(store, b)
  /\ ret' = [thread |-> "none", l |-> [IdleLoc EXCEPT !.op = "retention", !.bucket = b]]
  /\ UNCHANGED <<live, newDir, oldDir, staging, gameRunning, lockOwner, lockCount,
                 pc, loc, clock, cfg, monVars>>

\* retention applied to a bucket, and a promotion of what the polling bucket
\* holds
NextRetention ==
  \/ \E b \in BUCKETS : ApplyRetention(b)
  \/ PromoteEnter("loop")
  \/ PromoteBody("loop")

SpecRetention == InitRetention /\ [][NextRetention]_vars

(* ------------------------------ properties ----------------------------- *)
\* the call that returned in the last step
RestoreReturned == ret.thread # "none" /\ ret.l.op = "restore"
CaptureReturned == ret.thread # "none" /\ ret.l.op = "capture"
\* the store directory a record names
DirsOf(info) == {d \in store[info.bucket] : d.name = info.snapshot_id}

\* C1: when restore_snapshot returns with an error after the pre-restore
\* backup was taken (failed staging, failed first or second rename, failed
\* re-validation), the live profile directory exists and has the content it
\* had before the call.  (No write of the game under the call, and a rollback
\* rename that did not itself fail.)
C1_FailedRestoreKeepsLive ==
  (/\ RestoreReturned
   /\ ret.l.result.kind = "error"
   /\ ret.l.backup # NoInfo
   /\ ret.l.h_fault \in {"staging", "rename1", "rename2", "validate"}
   /\ ret.l.h_rollback # "failed"
   /\ ret.l.h_clean)
  => (live.exists /\ live.files = ret.l.h_pre.files)

\* C2: when the second rename ('.__new' -> live) fails after the first
\* (live -> '.__old') succeeded, then after the rollback the live directory
\* is manifest-equal to its state before the restore, and restore_snapshot
\* raises.
C2_FailureBetweenRenamesRollsBack ==
  (/\ RestoreReturned
   /\ ret.l.h_fault = "rename2"
   /\ ret.l.h_rollback = "ok"
   /\ ret.l.h_clean)
  => (/\ ret.l.result.kind = "error"
      /\ live.exists
      /\ build_manifest(live, TRUE) = build_manifest(ret.l.h_pre, TRUE))

\* C2's case: the second rename failed on the way to a target whose content
\* differs from the live directory's, and the rollback put the live
\* directory back
C2_Witness ==
  /\ RestoreReturned
  /\ ret.l.h_fault = "rename2"
  /\ ret.l.h_rollback = "ok"
  /\ ret.l.h_clean
  /\ ret.l.result.kind = "error"
  /\ live = ret.l.h_pre
  /\ \E d \in DirsOf(ret.l.target) : d.files # live.files

\* C3: capture_snapshot leaves no '.staging_*' directory behind: a staging
\* directory exists only while the attempt that made it is between its copy
\* and its publication, so none exists when the call returns a record,
\* returns None or raises.
C3_NoStagingLeftBehind ==
  \A b \in BUCKETS : \A d \in staging[b] :
    \E t \in Threads : /\ pc[t] \in {"c_after", "c_validate"}
                       /\ loc[t].bucket = b
                       /\ loc[t].snap_id = d.name

\* C3's case: a capture raised after its last attempt had copied the source
\* into a staging directory, and no staging directory is left
C3_Witness ==
  /\ CaptureReturned
  /\ ret.l.result.kind = "error"
  /\ ret.l.result.cause \in {"SourceChangedDuringCopy", "CopyMismatch",
                             "ValidationFailed", "IdCollision"}
  /\ \A b \in BUCKETS : staging[b] = {}

\* a step of thread t inside capture_snapshot that makes a new child
\* directory of a bucket visible to list_snapshots
CapturePublishes(t) ==
  /\ pc[t] \in {"c_attempt", "c_before", "c_copy", "c_after", "c_validate"}
  /\ pc'[t] # pc[t]
  /\ \E b \in BUCKETS : \E d \in store'[b] : d.name \notin Names(b)

\* the checks of the attempt of thread t that follow the quiet window: the
\* hashed source manifests before and after the copy were equal, the staging
\* copy is equal-for-copy to the source manifest, the probe returned a bool
CopyChecksPassed(t) ==
  /\ loc[t].h_after = loc[t].before
  /\ \E d \in staging[loc[t].bucket] :
       /\ d.name = loc[t].snap_id
       /\ manifest_equal_for_copy(loc[t].before,
                                  build_manifest(Dir(d.files), TRUE))
  /\ IsBool(IF pc'[t] = "idle" THEN ret'.l.h_value ELSE loc'[t].h_value)

\* C4 as stated: capture_snapshot makes a directory visible only after,
\* within the publishing attempt, the quiet-window manifests were equal, the
\* source manifests before and after the copy were equal, the copy was
\* equal-for-copy and the probe returned a boolean.
C4_Original ==
  [][\A t \in Threads :
       CapturePublishes(t) => (loc[t].h_quiet = "equal" /\ CopyChecksPassed(t))]_vars

\* C4 as amended: the same, with the quiet-window manifests compared (and
\* equal) exactly when quiet_window_ms > 0; with quiet_window_ms <= 0 no
\* quiet-window check is made.
C4_PublishOnlyAfterChecks ==
  [][\A t \in Threads :
       CapturePublishes(t) =>
         /\ IF cfg.quiet_window_ms > 0 THEN loc[t].h_quiet = "equal"
                                       ELSE loc[t].h_quiet = "skipped"
         /\ CopyChecksPassed(t)]_vars

\* C4's case: a capture published on its second attempt, after an attempt
\* that found the source changed had added nothing
C4_Witness ==
  /\ CaptureReturned
  /\ ret.l.result.kind = "info"
  /\ ret.l.attempt = 2
  /\ ret.l.last_error \in {"SourceChanged", "SourceChangedDuringCopy", "CopyMismatch"}
  /\ ret.l.h_quiet = "equal"
  /\ Names(ret.l.bucket) = {ret.l.result.info.snapshot_id}

\* C5: restore_snapshot called while the process-presence check reports the
\* game running raises the process-active error, and the call changes
\* neither the live directory, nor its '.__new' and '.__old' siblings, nor
\* any bucket (no backup is captured).
C5_RestoreRefusedWhileRunning ==
  [][(ret'.thread # "none" /\ ret'.l.op = "restore" /\ ret'.l.h_running)
       => (/\ ret'.l.result = ErrorResult("ProcessActive", "")
           /\ ret'.l.backup = NoInfo
           /\ UNCHANGED <<live, newDir, oldDir, store, staging>>)]_vars

\* C5's case: the game runs, the check reported it, restore raised
C5_Witness ==
  /\ RestoreReturned
  /\ ret.l.h_running
  /\ gameRunning
  /\ ret.l.result.error = "ProcessActive"
  /\ ret.l.target.integrity_ok

\* the pre-restore backup of a restore call with locals l is published in
\* the closed_manual bucket, holding the live state the call started from
BackupPublished(l) ==
  /\ l.backup # NoInfo
  /\ l.backup.bucket = BUCKET_CLOSED_MANUAL
  /\ l.backup.reason = "pre_restore_backup"
  /\ l.backup.integrity_ok
  /\ \E d \in store[BUCKET_CLOSED_MANUAL] :
       /\ d.name = l.backup.snapshot_id
       /\ d.hasMeta /\ d.meta = l.backup
       /\ l.h_clean => d.files = l.h_pre.files

\* C6: no step of restore_snapshot changes the live directory or its
\* siblings before the pre-restore backup is published in closed_manual; a
\* restore that returns without a backup raises and leaves the live
\* directory as it was.
C6_BackupBeforeDestruction ==
  [][/\ \A t \in Threads :
          (/\ loc[t].op = "restore"
           /\ pc'[t] # pc[t]
           /\ <<live, newDir, oldDir>>' # <<live, newDir, oldDir>>)
          => BackupPublished(loc[t])
     /\ (ret'.thread # "none" /\ ret'.l.op = "restore" /\ ret'.l.backup = NoInfo)
          => (/\ ret'.l.result.kind = "error"
              /\ live' = live
              /\ ret'.l.h_clean => live' = ret'.l.h_pre)]_vars

\* C6's case: the swap has happened ('.__old' holds the previous live
\* directory) and the backup of that state is in closed_manual
C6_Witness ==
  \E t \in Threads :
    /\ pc[t] = "r_validate"
    /\ oldDir.exists
    /\ live # oldDir
    /\ loc[t].h_clean
    /\ BackupPublished(loc[t])

\* C7: after restore_snapshot returns its record, '.__old' no longer
\* exists, the record is the pre-restore backup (closed_manual,
\* pre_restore_backup), and, the game not having written under the call, the
\* live directory holds exactly the target snapshot's files (meta.json is
\* not one of them) and the backup holds the live directory's files from
\* before the call.
C7_SuccessfulRestore ==
  (RestoreReturned /\ ret.l.result.kind = "info")
  => (/\ ~oldDir.exists
      /\ ret.l.result.info = ret.l.backup
      /\ ret.l.result.info.bucket = BUCKET_CLOSED_MANUAL
      /\ ret.l.result.info.reason = "pre_restore_backup"
      /\ DirsOf(ret.l.result.info) # {}
      /\ ret.l.h_clean =>
           /\ live.exists
           /\ \E d \in DirsOf(ret.l.target) : live.files = d.files
           /\ \A d \in DirsOf(ret.l.result.info) : d.files = ret.l.h_pre.files)

\* C7's case: a restore returned its backup record and changed the live
\* directory's content to the target's
C7_Witness ==
  /\ RestoreReturned
  /\ ret.l.result.kind = "info"
  /\ ret.l.h_clean
  /\ live # ret.l.h_pre
  /\ \E d \in DirsOf(ret.l.target) : live.files = d.files
  /\ ~oldDir.exists

\* C8: after capture_snapshot returns a record, the record has integrity_ok
\* true, its source_hash is the digest of the hashed manifest of the source
\* as the capture found it, and the published tree is equal-for-copy to that
\* manifest.
C8_PublishedRecordMatchesSource ==
  (CaptureReturned /\ ret.l.result.kind = "info")
  => LET info == ret.l.result.info
     IN /\ info.integrity_ok
        /\ info.source_hash = manifest_digest(ret.l.h_after)
        /\ DirsOf(info) # {}
        /\ \A d \in DirsOf(info) :
             /\ d.hasMeta /\ d.meta = info
             /\ manifest_equal_for_copy(ret.l.h_after,
                                        build_manifest(Dir(d.files), TRUE))

\* C8's case: a capture returned a record of a source the game had written
C8_Witness ==
  /\ CaptureReturned
  /\ ret.l.result.kind = "info"
  /\ live # InitialLive
  /\ ret.l.result.info.source_hash = manifest_digest(build_manifest(live, TRUE))
  /\ \E d \in DirsOf(ret.l.result.info) : d.files = live.files

\* C9: the critical sections of capture_snapshot, restore_snapshot,
\* promote_latest_poll_to_pre_raid (with the retention pruning inside them)
\* and clear_bucket never overlap: at most one thread is inside one, and
\* that thread holds the lock.
C9_MutationSerialized ==
  /\ \A t1, t2 \in Threads : (pc[t1] # "idle" /\ pc[t2] # "idle") => t1 = t2
  /\ \A t \in Threads : pc[t] # "idle" => (lockOwner = t /\ lockCount >= 1)
  /\ (\A t \in Threads : pc[t] = "idle") => (lockOwner = "none" /\ lockCount = 0)

\* C9's case: the worker is inside the backup capture of a restore (the lock
\* taken twice) while the loop thread is outside every critical section
C9_Witness ==
  /\ pc["worker"] = "c_copy"
  /\ loc["worker"].op = "restore"
  /\ lockOwner = "worker"
  /\ lockCount = 2
  /\ pc["loop"] = "idle"
  /\ DirsOf(loc["worker"].target) # {}

\* C10: a capture_snapshot call with dedupe_on_source_hash that follows a
\* published capture into the same bucket, the source unchanged since,
\* returns None and creates neither a staging directory nor a record.
C10_SecondDedupeCaptureIsNoOp ==
  [][\A t \in Threads :
       (/\ loc[t].op = "capture" /\ loc[t].dedupe
        /\ loc[t].h_prev /\ loc[t].h_clean
        /\ pc'[t] # pc[t])
       => (/\ store' = store
           /\ staging' = staging
           /\ pc'[t] \in {"c_before", "idle"}
           /\ pc'[t] = "idle" => ret'.l.result = NoneResult)]_vars

\* C10's case: the second of two polling captures of an unchanged source
\* returned None, the bucket holding the first one's record only
C10_Witness ==
  /\ CaptureReturned
  /\ ret.l.dedupe /\ ret.l.h_prev /\ ret.l.h_clean
  /\ ret.l.result = NoneResult
  /\ Cardinality(store[ret.l.bucket]) = 1
  /\ staging[ret.l.bucket] = {}

\* the creation timestamp list_snapshots sorts a child directory by
CreatedAt(b, d) == IF d.hasMeta THEN d.meta.created_at ELSE Synthetic(b, d).created_at

\* C11: after _apply_retention(bucket) the bucket holds no more directories
\* than its cap (retention_per_bucket, 1 for the polling bucket), the ones
\* that remain are the newest by creation timestamp (none removed is newer
\* than one kept, and none is removed while the cap is not reached), and no
\* other bucket changes.
C11_RetentionKeepsNewestWithinCap ==
  [][ret'.l.op = "retention" =>
       LET b == ret'.l.bucket
           cap == IF b = BUCKET_RUNTIME_POLL_TEMP THEN 1 ELSE cfg.retention_per_bucket
       IN /\ store'[b] \subseteq store[b]
          /\ Cardinality(store'[b]) <= cap
          /\ Cardinality(store'[b]) = cap \/ store'[b] = store[b]
          /\ \A k \in store'[b] : \A r \in store[b] \ store'[b] :
               CreatedAt(b, k) >= CreatedAt(b, r)
          /\ \A x \in BUCKETS \ {b} : store'[x] = store[x]]_vars

\* C11's case: retention was applied to a bucket that held more than its
\* cap, records with and without meta.json among them, and cut it to the cap
C11_Witness ==
  /\ ret.l.op = "retention"
  /\ ret.l.bucket = BUCKET_RUNTIME_POLL_TEMP
  /\ cfg.retention_per_bucket > 1
  /\ Cardinality(store[BUCKET_RUNTIME_POLL_TEMP]) = 1
  /\ \E d \in store[BUCKET_RUNTIME_POLL_TEMP] : ~d.hasMeta /\ d.mtime = 2

\* the records of the profile flagged as the pre-raid anchor
Anchors ==
  UNION {{d \in store[b] : d.hasMeta /\ d.meta.pre_raid_anchor} : b \in BUCKETS}

FoundCollision(t) ==
  /\ pc[t] = "c_validate"
  /\ pc'[t] # pc[t]
  /\ loc[t].snap_id \in Names(loc[t].bucket)
  /\ store' = store
  /\ \/ pc'[t] = "c_attempt" /\ loc'[t].last_error = "IdCollision"
     \/ pc'[t] = "idle" /\ ret'.l.result.cause = "IdCollision"

\* C13: an attempt that finds the final path of its id already present ends
\* capture_snapshot at once with the id-collision error; no further attempt
\* is made, whatever number of retries remains.
C13_IdCollisionNotRetried ==
  [][\A t \in Threads :
       FoundCollision(t) =>
         (/\ pc'[t] = "idle"
          /\ ret'.l.result.kind = "error"
          /\ ret'.l.result.cause = "IdCollision")]_vars

\* the failures an attempt can end with at each of its positions
AttemptFailures(p) ==
  CASE p = "c_attempt" -> {"DirectoryMissing"}
    [] p = "c_before" -> {"DirectoryMissing", "SourceChanged"}
    [] p = "c_copy" -> {"CopyFailed"}
    [] p = "c_after" -> {"DirectoryMissing", "SourceChangedDuringCopy", "CopyMismatch"}
    [] p = "c_validate" -> {"ValidationFailed", "IdCollision"}
    [] OTHER -> {}

\* C14: capture_snapshot makes at most max(1, integrity_retry) attempts, each
\* with an id generated for it; a failure of an attempt is never raised as
\* such: the only error of a call that made an attempt is the capture-failed
\* error, raised when the last allowed attempt failed and carrying the
\* failure of that attempt.
C14_BoundedAttemptsOneFinalError ==
  /\ [](\A t \in Threads : loc[t].attempt <= Retries)
  /\ [][\A t \in Threads :
          (/\ loc[t].op = "capture"
           /\ pc[t] # "idle"
           /\ pc'[t] = "idle"
           /\ ret'.l.result.kind = "error")
          => (/\ ret'.l.result.error = "CaptureFailed"
              /\ ret'.l.attempt = Retries
              /\ ret'.l.result.cause \in AttemptFailures(pc[t]))]_vars
  /\ [][\A t \in Threads :
          (pc[t] = "c_attempt" /\ pc'[t] # "c_attempt")
          => \/ pc'[t] = "idle"
             \/ /\ loc'[t].attempt = loc[t].attempt + 1
                /\ loc'[t].snap_id \in SnapshotIds(loc[t].bucket, loc[t].reason)]_vars

\* a call whose first attempt failed in one way and whose last attempt
\* failed in another returned the capture-failed error
C14_Witness ==
  /\ CaptureReturned
  /\ ret.l.result.kind = "error"
  /\ ret.l.result.error = "CaptureFailed"
  /\ ret.l.attempt = Retries
  /\ ret.l.last_error # ""
  /\ ret.l.last_error # ret.l.result.cause

\* C15: when the process-presence query of restore_snapshot raises, so that
\* it is not known whether the game runs, the call fails in that step: it
\* does not go on to the backup and the swap as if the game were absent.
C15_RestoreFailsClosed ==
  [][(ret'.l.op = "restore" /\ ret'.l.h_query = "raised")
       => (/\ ret'.thread # "none"
           /\ ret'.l.result.kind = "error")]_vars

\* the step in which the worker calls trigger_manual_closed_snapshot: the
\* call is refused in it, or it goes on to capture_snapshot
ManualRequested ==
  /\ pc["worker"] = "idle"
  /\ \/ pc'["worker"] # "idle"
     \/ ret'.thread = "worker" /\ ret'.l.op = "manual"

\* C16: trigger_manual_closed_snapshot called while the game runs raises
\* before any step of a capture: the call returns the process-active error
\* at once, no staging directory and no record is created, and no
\* snapshot_created event is put on the queue.
C16_ManualRefusedWhileRunning ==
  [][(gameRunning /\ ManualRequested)
       => (/\ ret'.thread = "worker"
           /\ ret'.l.result = ErrorResult("ProcessActive", "")
           /\ UNCHANGED <<store, staging, events>>)]_vars

\* the step surfaces a failure of an operation of the engine: a
\* user-triggered operation raises to its caller, or the loop handles the
\* exception of a call it made
SurfacesFailure ==
  /\ ret'.l.result.kind = "error"
  /\ \/ ret'.thread = "worker" /\ ret'.l.op = "manual"
     \/ ret'.thread = "none" /\ ret'.l.op = "none"

\* C17: whenever an operation surfaces a failure (a capture, promotion or
\* clear of the loop that raised, a user-triggered capture that raised), an
\* 'error' event is appended to the event queue in that step.
C17_FailureAlsoAnErrorEvent ==
  [][SurfacesFailure
       => (/\ Len(events') = Len(events) + 1
           /\ events'[Len(events')].type = "error")]_vars

\* the positions of a loop thread from which its loop goes on
LoopPositions ==
  {"l_cond", "l_f5", "l_f5_ret", "l_promote", "l_promote_ret", "l_clear",
   "l_clear_ret", "l_clear2", "l_clear2_ret", "l_poll", "l_poll_ret", "l_wait"}
   \cup InManager

\* the step of loop thread t handles an exception raised in its tick: the
\* read of the flag raised, or a call of the manager returned by raising
HandlesException(t) ==
  \/ /\ pc[t] = "l_cond"
     /\ ret'.l.op = "tick"
     /\ ret'.l.h_value = "raise"
  \/ /\ pc[t] \in {"l_f5_ret", "l_promote_ret", "l_clear_ret", "l_clear2_ret",
                   "l_poll_ret"}
     /\ pc'[t] # pc[t]
     /\ loc[t].result.kind = "error"

\* C18: an exception raised in a tick of the monitor loop does not end the
\* loop: the step that handles it appends an 'error' event and leaves the
\* thread in its tick or at the wait before the next tick; the thread leaves
\* the loop only at the loop condition, when the stop flag is set.
C18_TickExceptionKeepsLoop ==
  /\ [][\A t \in LoopThreads :
          HandlesException(t)
          => (/\ pc'[t] \in LoopPositions
              /\ \E i \in 1..Len(events') : events'[i] = [type |-> "error", by |-> t]
              /\ Len(events') > Len(events))]_vars
  /\ [][\A t \in LoopThreads :
          (pc[t] \in LoopPositions \cup {"l_init"}
           /\ pc'[t] \notin LoopPositions \cup {"l_init"})
          => (pc[t] = "l_cond" /\ _stop_evt /\ pc'[t] = "exited")]_vars
  /\ [][\A t \in LoopThreads :
          (pc[t] = "l_wait" /\ pc'[t] # "l_wait") => pc'[t] = "l_cond"]_vars
  /\ [][\A t \in LoopThreads :
          (pc[t] = "l_cond" /\ pc'[t] # "l_cond" /\ ~_stop_evt) => ret'.l.op = "tick"]_vars

\* the loop has handled an exception of clear_bucket and waits for its next
\* tick, the stop flag not set
C18_Witness ==
  /\ pc["loop"] = "l_wait"
  /\ ~_stop_evt
  /\ ret.thread = "none"
  /\ ret.l.result.kind = "error"
  /\ events # <<>>
  /\ events[Len(events)] = [type |-> "error", by |-> "loop"]

\* the queue a is the front part of the queue b
IsPrefix(a, b) == Len(a) <= Len(b) /\ SubSeq(b, 1, Len(a)) = a

\* C19: producers put events at the tail of the queue, in the order in which
\* they produce them, and nothing else changes the queue but the consumer,
\* which takes the oldest event: the consumer receives the events in
\* insertion order, none lost and none twice.
C19_EventsFifo ==
  /\ [][IF ret'.l.op = "get"
          THEN /\ events # <<>>
               /\ ret'.l.event = Head(events)
               /\ events' = Tail(events)
          ELSE IsPrefix(events, events')]_vars
  /\ [][(~_running /\ _running')
          => events' = events \o <<[type |-> "info", by |-> "main"],
                                   [type |-> "hotkey", by |-> "main"]>>]_vars
  /\ [][\A t \in LoopThreads :
          (ret'.l.op = "tick" /\ pc'[t] # pc[t])
          => events' = events
                       \o (IF ret'.l.h_value = "raise"
                             THEN <<[type |-> "error", by |-> t]>> ELSE <<>>)
                       \o <<[type |-> "state", by |-> t]>>]_vars

\* the consumer took an event of start() while an event of the loop thread
\* is the oldest of the queue
C19_Witness ==
  /\ ret.l.op = "get"
  /\ ret.l.event.by = "main"
  /\ events # <<>>
  /\ events[1].by = "loop"

\* loop thread t is inside a tick: past the loop condition, before the wait
InTick(t) == pc[t] \in LoopPositions \ {"l_cond", "l_wait"}

\* C20: whatever start() and stop() calls were made, at most one loop thread
\* is inside a tick at any time.
C20_OneLoopThread ==
  Cardinality({t \in LoopThreads : InTick(t)}) <= 1

\* C21: once the stop flag is set (start() is not called again) the loop
\* thread ends; until then a capture it has in flight is left only by the
\* return of capture_snapshot, and when the thread has ended no staging
\* directory of the polling bucket is left and the lock is free.
C21_StopFlagEndsLoop ==
  /\ (_stop_evt ~> pc["loop"] = "exited")
  /\ [][(pc["loop"] \in InCapture /\ pc'["loop"] \notin InCapture)
          => (/\ pc'["loop"] = "l_poll_ret"
              /\ ret'.thread = "loop"
              /\ staging'[BUCKET_RUNTIME_POLL_TEMP] = {})]_vars
  /\ [](pc["loop"] = "exited"
          => staging[BUCKET_RUNTIME_POLL_TEMP] = {} /\ lockOwner = "none")

\* the loop thread has ended after a tick whose polling capture published a
\* record
C21_Witness ==
  /\ _stop_evt
  /\ pc["loop"] = "exited"
  /\ store[BUCKET_RUNTIME_POLL_TEMP] # {}

\* C22: a manager operation uses one configuration for its whole duration:
\* every record in the store carries the profile of the bucket directory it
\* was written to, also when the profile is changed while the capture runs.
C22_OneConfigPerOperation ==
  \A b \in BUCKETS : \A d \in store[b] : d.hasMeta => d.meta.profile = d.under

\* C23: a directory without meta.json takes none of the retained slots:
\* _apply_retention removes a record that has its meta.json only when as
\* many records with meta.json as the bucket's cap remain.
C23_SyntheticNotCounted ==
  [][ret'.l.op = "retention" =>
       \A d \in store[ret'.l.bucket] \ store'[ret'.l.bucket] :
         d.hasMeta =>
           Cardinality({x \in store'[ret'.l.bucket] : x.hasMeta})
             >= bucket_retention(ret'.l.bucket)]_vars

\* C24: list_snapshots returns the records newest first by creation
\* timestamp; a directory without meta.json is listed only with
\* include_invalid, with integrity_ok = false and its modification time as
\* creation time; without include_invalid every record has integrity_ok =
\* true; only the published directories are listed, one record each, never
\* a '.staging_*' directory.
C24_ListNewestFirstValidOnly ==
  \A b \in BUCKETS :
    LET all == list_snapshots(b, TRUE)
        ok == list_snapshots(b, FALSE)
    IN /\ \A i, j \in 1..Len(all) : i < j => all[i].created_at >= all[j].created_at
       /\ \A i, j \in 1..Len(ok) : i < j => ok[i].created_at >= ok[j].created_at
       /\ \A d \in store[b] :
            ~d.hasMeta =>
              /\ \E i \in 1..Len(all) : /\ all[i].snapshot_id = d.name
                                        /\ ~all[i].integrity_ok
                                        /\ all[i].created_at = d.mtime
              /\ \A i \in 1..Len(ok) : ok[i].snapshot_id # d.name
       /\ \A i \in 1..Len(ok) : ok[i].integrity_ok
       /\ Len(all) = Cardinality(store[b])
       /\ \A i \in 1..Len(all) : all[i].path \in {PathOf(b, d.name) : d \in store[b]}
       /\ \A d \in store[b] : d.hasMeta => \E i \in 1..Len(ok) : ok[i] = d.meta

\* a bucket with a '.staging_*' directory, a directory without meta.json and
\* two snapshots of different age
C24_Witness ==
  \E b \in BUCKETS :
    /\ staging[b] # {}
    /\ Len(list_snapshots(b, TRUE)) > Len(list_snapshots(b, FALSE))
    /\ Len(list_snapshots(b, FALSE)) = 2
    /\ list_snapshots(b, FALSE)[1].created_at > list_snapshots(b, FALSE)[2].created_at

\* C25: when restore_snapshot fails after the first rename (the second
\* rename or the re-validation failed), it raises that failure, whether the
\* rollback's rename of '.__old' succeeded or failed.
C25_OriginalErrorSurfaced ==
  (RestoreReturned /\ ret.l.h_fault \in {"rename2", "validate"})
  => (/\ ret.l.result.kind = "error"
      /\ ret.l.h_rollback \in {"ok", "failed"}
      /\ ret.l.result.error = IF ret.l.h_fault = "rename2"
                                THEN "RenameFailed" ELSE "RestoreValidationFailed")

\* the re-validation failed and the rollback failed too
C25_Witness ==
  /\ RestoreReturned
  /\ ret.l.h_fault = "validate"
  /\ ret.l.h_rollback = "failed"
  /\ ret.l.result.error = "RestoreValidationFailed"

\* C26: when restore_snapshot returns after its pre-restore backup (with the
\* backup's record, or raising after a failed staging, rename or
\* re-validation), no '.__new' directory exists.
C26_NoNewDirAfterRestore ==
  (RestoreReturned /\ ret.l.backup # NoInfo) => ~newDir.exists

\* the first rename failed with the target staged in '.__new'
C26_Witness ==
  /\ RestoreReturned
  /\ ret.l.h_fault = "rename1"
  /\ ret.l.result.kind = "error"
  /\ ~newDir.exists

\* a step in which a manual capture into the closed_manual bucket returns,
\* having found the bucket empty (no other thread runs)
FirstManualCapture ==
  /\ store[BUCKET_CLOSED_MANUAL] = {}
  /\ CaptureReturned'
  /\ ret'.l.bucket = BUCKET_CLOSED_MANUAL
  /\ ret'.l.reason = "manual_click"
  /\ ret'.l.inraid_at_capture = "None"

\* list_snapshots(closed_manual) is one record, of the size of the three
\* source files together
OneRecordOfSourceSize ==
  LET listed == list_snapshots(BUCKET_CLOSED_MANUAL, FALSE)
  IN /\ Len(listed) = 1
     /\ listed[1].snapshot_size_bytes =
          FileSize(live.files[PERSIST].sha256) + FileSize(live.files[ROSTER].sha256)
            + FileSize(live.files[TOWN].sha256)

\* C27 as stated: with a source directory of three files and an empty
\* closed_manual bucket, capture_snapshot(closed_manual, 'manual_click',
\* None) gives exactly one record in list_snapshots(closed_manual), whose
\* snapshot_size_bytes is the sum of the three file sizes.
C27_EndToEndOneRecord ==
  [][FirstManualCapture => OneRecordOfSourceSize']_vars

\* C27 amended: the capture returns a record and then the list is exactly
\* that record with the size of the three files, or it raises after
\* integrity_retry attempts that failed the decode validation and the list
\* is empty.
C27_EndToEndOneRecordOrError ==
  [][FirstManualCapture =>
       \/ /\ ret'.l.result.kind = "info"
          /\ OneRecordOfSourceSize'
          /\ list_snapshots(BUCKET_CLOSED_MANUAL, FALSE)'[1] = ret'.l.result.info
       \/ /\ ret'.l.result.kind = "error"
          /\ ret'.l.result.cause = "ValidationFailed"
          /\ ret'.l.attempt = Retries
          /\ list_snapshots(BUCKET_CLOSED_MANUAL, TRUE)' = <<>>]_vars

\* the first capture returned its record
C27_Witness ==
  /\ CaptureReturned
  /\ ret.l.bucket = BUCKET_CLOSED_MANUAL
  /\ ret.l.reason = "manual_click"
  /\ ret.l.result.kind = "info"
  /\ store[BUCKET_CLOSED_MANUAL] = DirsOf(ret.l.result.info)
  /\ OneRecordOfSourceSize

\* C28: the snapshot restore_snapshot was called with (it existed at the
\* call, line 324) still exists when the staging of '.__new' begins: the
\* pre-restore backup and the retention of closed_manual have not removed it.
C28_TargetSurvivesBackup ==
  pc["worker"] = "r_swap" => TargetDirs(loc["worker"]) # {}

\* the valid polling records created at or before the cutoff (the clock)
PollsUpToCutoff ==
  {d \in store[BUCKET_RUNTIME_POLL_TEMP] :
     d.hasMeta /\ d.meta.integrity_ok /\ d.meta.created_at <= clock}

\* C29: promote_latest_poll_to_pre_raid(cutoff) promotes, among the valid
\* polling records, one of the greatest creation time at or before the
\* cutoff; when there is none it returns None and changes nothing.
C29_PromoteSelectsLatestUpToCutoff ==
  [][(ret'.thread # "none" /\ ret'.l.op = "promote") =>
       IF PollsUpToCutoff = {}
         THEN /\ ret'.l.result = NoneResult
              /\ store' = store
              /\ staging' = staging
         ELSE /\ ret'.l.result.kind \in {"info", "error"}
              /\ ret'.l.result.kind = "info" =>
                   \E d \in PollsUpToCutoff :
                     /\ \A e \in PollsUpToCutoff : e.meta.created_at <= d.meta.created_at
                     /\ ret'.l.result.info = Promoted(d.meta, ret'.l.result.info.snapshot_id)
                     /\ \E x \in store'[BUCKET_PRE_RAID_AUTO] :
                          x.meta = ret'.l.result.info /\ x.files = d.files]_vars

\* the polling bucket holds valid records, all newer than the cutoff, and
\* the promotion returned None
C29_Witness ==
  /\ ret.thread # "none"
  /\ ret.l.op = "promote"
  /\ ret.l.result = NoneResult
  /\ \E d \in store[BUCKET_RUNTIME_POLL_TEMP] : d.hasMeta /\ d.meta.integrity_ok

\* C30: a promotion that raises leaves the store as it was: no new
\* directory in pre_raid_auto, the previous anchor still flagged, the polling
\* record still there.
C30_FailedPromotionChangesNothing ==
  [][(ret'.thread # "none" /\ ret'.l.op = "promote" /\ ret'.l.result.kind = "error")
       => store' = store]_vars

\* C31: when capture_snapshot or promote_latest_poll_to_pre_raid returns a
\* record (every cap is at least 1), the record's directory exists and the
\* record is the first of list_snapshots of its bucket: the retention pass
\* at the end of the call has not pruned it.
C31_PublishedRecordSurvivesRetention ==
  (/\ ret.thread # "none"
   /\ ret.l.op \in {"capture", "promote"}
   /\ ret.l.result.kind = "info"
   /\ bucket_retention(ret.l.result.info.bucket) >= 1)
  => (/\ DirsOf(ret.l.result.info) # {}
      /\ list_snapshots(ret.l.result.info.bucket, FALSE) # <<>>
      /\ list_snapshots(ret.l.result.info.bucket, FALSE)[1] = ret.l.result.info)

\* C32: whenever no call of the manager is in progress (every operation
\* begun has returned), the polling bucket of the active profile holds at
\* most one directory, whatever retention_per_bucket is.
C32_PollBucketAtMostOne ==
  (\A t \in Threads : pc[t] = "idle") =>
    Cardinality({d \in store[BUCKET_RUNTIME_POLL_TEMP] : d.under = cfg.profile}) <= 1

C34_PromoteBeforeClear ==
  /\ [][(pc["loop"] # "p_body" /\ pc'["loop"] = "p_body")
          => (/\ pc["loop"] = "l_promote"
              /\ _last_inraid = "False"
              /\ tick["loop"].inraid = "True")]_vars
  /\ [][(/\ pc["loop"] = "k_body"
          /\ pc'["loop"] = "l_clear_ret"
          /\ _last_inraid = "False")
          => list_snapshots(BUCKET_RUNTIME_POLL_TEMP, FALSE) = <<>>]_vars
  /\ [][(/\ Len(events') = Len(events) + 1
          /\ events'[Len(events')].type = "anchor_set")
          => (pc["loop"] = "l_promote_ret" /\ loc["loop"].result.kind = "info")]_vars

\* C35: every record of the pre-raid bucket that carries the anchor flag
\* was captured with the flag False and its persist.game.json decodes to
\* inraid = False.
C35_AnchorHoldsTownContent ==
  \A d \in store[BUCKET_PRE_RAID_AUTO] :
    (d.hasMeta /\ d.meta.pre_raid_anchor)
      => (/\ d.meta.inraid_at_capture = "False"
          /\ DecodeInraid(Dir(d.files)) = "False")

\* C36: every tick of the loop comes to lines 276-281, and a set request
\* flag is cleared by that step only; the step clears the flag and calls
\* capture_snapshot for the runtime_f5 bucket once when the game is running,
\* and puts one info event on the queue without touching the store when it
\* is not; a capture into runtime_f5 starts from no other step.
C36_RequestServedOnce ==
  /\ [][(pc["loop"] = "l_f5" /\ pc'["loop"] # "l_f5" /\ _f5_requested)
          => (/\ ~_f5_requested'
              /\ IF gameRunning
                    THEN pc'["loop"] \in InCapture \cup {"l_f5_ret"}
                    ELSE /\ pc'["loop"] = "l_promote"
                         /\ events' = _emit(events, "info", "loop")
                         /\ store' = store
                         /\ staging' = staging)]_vars
  /\ [][(_f5_requested /\ ~_f5_requested') => pc["loop"] = "l_f5"]_vars
  /\ [][(/\ pc["loop"] \notin InCapture
          /\ pc'["loop"] \in InCapture
          /\ loc'["loop"].bucket = BUCKET_RUNTIME_F5)
          => (pc["loop"] = "l_f5" /\ _f5_requested)]_vars
  /\ [][(pc["loop"] = "l_cond" /\ pc'["loop"] # "l_cond")
          => pc'["loop"] \in {"l_f5", "exited"}]_vars

\* the worker's capture has dedupe set and the digest of the source is the
\* source_hash of the newest entry of its bucket
DigestIsLatest ==
  /\ loc["worker"].dedupe
  /\ list_snapshots(loc["worker"].bucket, TRUE) # <<>>
  /\ manifest_digest(build_manifest(live, TRUE))
       = list_snapshots(loc["worker"].bucket, TRUE)[1].source_hash

C38_NoSwapWhileGameRuns ==
  [][(/\ loc["worker"].op = "restore"
      /\ live' # live
      /\ (newDir' # newDir \/ oldDir' # oldDir))
      => ~gameRunning]_vars

\* the directories of store contents st outside bucket b of profile p
OutsideDomain(st, b, p) ==
  [c \in BUCKETS |-> {d \in st[c] : c # b \/ d.under # p}]

\* C39: a step of capture_snapshot (its retention pass included) or of
\* clear_bucket called for bucket b while profile p was active, and
\* _apply_retention on bucket b of the active profile p, leave every
\* directory of every other bucket and of every other profile as it was.
C39_BucketsAndProfilesIndependent ==
  /\ [][(/\ lockOwner \in Threads
          /\ loc[lockOwner].op = "capture"
          /\ pc'[lockOwner] # pc[lockOwner])
          => OutsideDomain(store', loc[lockOwner].bucket, loc[lockOwner].bucket_profile)
               = OutsideDomain(store, loc[lockOwner].bucket, loc[lockOwner].bucket_profile)]_vars
  /\ [][(/\ lockOwner \in Threads
          /\ loc[lockOwner].op = "clear"
          /\ pc'[lockOwner] # pc[lockOwner])
          => OutsideDomain(store', loc[lockOwner].bucket, cfg.profile)
               = OutsideDomain(store, loc[lockOwner].bucket, cfg.profile)]_vars
  /\ [][(ret'.thread = "none" /\ ret'.l.op = "retention")
          => OutsideDomain(store', ret'.l.bucket, cfg.profile)
               = OutsideDomain(store, ret'.l.bucket, cfg.profile)]_vars

====
